---- MODULE Spec2Model ----
(***************************************************************************)
(* Model of the worldclass-scheduler booking loop: the occurrence          *)
(* calculator (computeNextOccurrence, nextInterestOccurrence), the booking *)
(* session (newBookingSession, BookClass), one scheduling pass             *)
(* (scheduleInterests) and the loop of runScheduleLoop.                    *)
(*                                                                         *)
(* Instants are whole seconds.  Instant 0 is a Sunday, 00:00 UTC.          *)
(***************************************************************************)
EXTENDS Integers, Sequences, FiniteSets, TLC

VARIABLES
    occ,             \* a call of computeNextOccurrence: its arguments and result
    loginCall,       \* a call of newBookingSession: its arguments and result
    bookCall,        \* a call of BookClass: its arguments and result
    matchCall,       \* a call of interestMatches: its arguments and result
    nextCall,        \* a call of nextInterestOccurrence: its arguments and result
    onceCall,        \* a run of runScheduleOnce: its inputs and what it did
    cfg,             \* the configuration the loop runs with
    boot,            \* the instant the process started
    now,             \* the clock
    pc,              \* where runScheduleLoop stands
    location,        \* the loaded timezone
    client,          \* the client's base URL
    sentryEnabled,   \* whether alerting is on
    handle,          \* the interest of the current occurrence
    startTime,       \* the start of the current occurrence
    deadline,        \* the cutoff of the current retry phase
    last,            \* what the loop's last step did (pass, abandon, fatal error)
    windowSessions,  \* booking sessions opened in the current retry phase
    served           \* the handles that have had a pass since the process started

loopVars ==
    <<cfg, boot, now, pc, location, client, sentryEnabled, handle, startTime,
      deadline, last, windowSessions, served>>

laterCalls == <<bookCall, matchCall, nextCall, onceCall>>

callVars == <<occ, loginCall, laterCalls>>

vars == <<callVars, loopVars>>

----------------------------------------------------------------------------
(* Durations, in seconds (time.Minute, time.Hour, 24 * time.Hour).          *)

Minute == 60
Hour == 60 * Minute
Day == 24 * Hour
Week == 7 * Day

(* time.Weekday: Sunday = 0 ... Saturday = 6.                               *)
Weekdays == 0 .. 6

----------------------------------------------------------------------------
(* time.Location.  A location has one offset from UTC before the instant   *)
(* `at' and another from `at' on (one daylight-saving transition); a        *)
(* location without a transition has before = after.                        *)

EET == 2 * Hour
EEST == 3 * Hour

(* The transition instant of the modelled locations: 01:00 UTC on the       *)
(* Sunday that opens the second week (03:00 EET / 04:00 EEST, as in         *)
(* Europe/Bucharest).                                                       *)
ShiftInstant == Week + Hour

FixedZone == [before |-> EET, after |-> EET, at |-> ShiftInstant]
SpringZone == [before |-> EET, after |-> EEST, at |-> ShiftInstant]
FallZone == [before |-> EEST, after |-> EET, at |-> ShiftInstant]

Zones == {FixedZone, SpringZone, FallZone}

(* Location.lookup: the offset in force at the instant t.                   *)
OffsetAt(loc, t) == IF t < loc.at THEN loc.before ELSE loc.after

(* The wall clock of the instant t in loc, as seconds.                      *)
Wall(loc, t) == t + OffsetAt(loc, t)

(* Time.Weekday, and the hour:minute:second of the day as seconds.          *)
WeekdayOf(loc, t) == (Wall(loc, t) \div Day) % 7
TimeOfDay(loc, t) == Wall(loc, t) % Day

(* Time.Year/Month/Day: the calendar date, as a day number.                 *)
DateOf(loc, t) == Wall(loc, t) \div Day

(* time.Date(y, m, d, hour, min, 0, 0, loc): the wall clock reading is      *)
(* looked up as if it were UTC; when the instant that offset gives lies     *)
(* outside the period the offset belongs to, the offset at that instant is  *)
(* used instead.  Hours and minutes beyond the day carry over.              *)
GoDate(loc, date, hour, minute) ==
    LET unix == date * Day + hour * Hour + minute * Minute
        offset == OffsetAt(loc, unix)
        utc == unix - offset
        inPeriod == (utc < loc.at) = (unix < loc.at)
    IN  IF offset # 0 /\ ~inPeriod THEN unix - OffsetAt(loc, utc) ELSE utc

(* A loop that also steps past a start equal to the reference.              *)
RECURSIVE AdvanceByPastEqual(_, _, _, _, _)
AdvanceByPastEqual(step, start, reference, loc, weekday) ==
    IF start <= reference \/ WeekdayOf(loc, start) # weekday
    THEN AdvanceByPastEqual(step, start + step, reference, loc, weekday)
    ELSE start

RECURSIVE AdvanceBy(_, _, _, _, _)
AdvanceBy(step, start, reference, loc, weekday) ==
    IF start < reference \/ WeekdayOf(loc, start) # weekday
    THEN AdvanceBy(step, start + step, reference, loc, weekday)
    ELSE start

computeNextOccurrence(reference, loc, weekday, hour, minute) ==
    AdvanceBy(Day, GoDate(loc, DateOf(loc, reference), hour, minute),
              reference, loc, weekday)

----------------------------------------------------------------------------
(* Strings are sequences of one-character strings.                          *)

(* The characters of the model in ascending byte order.                     *)
Alphabet ==
    <<" ", "-", "0", "1", "2", "3", "4", "5", "6", "7", "8", "9", ":",
      "A", "B", "C", "D", "E", "F", "G", "H", "I", "J", "K", "L", "M",
      "N", "O", "P", "Q", "R", "S", "T", "U", "V", "W", "X", "Y", "Z",
      "a", "b", "c", "d", "e", "f", "g", "h", "i", "j", "k", "l", "m",
      "n", "o", "p", "q", "r", "s", "t", "u", "v", "w", "x", "y", "z">>

Chars == {Alphabet[i] : i \in 1 .. Len(Alphabet)}

CodeTable == [c \in Chars |-> CHOOSE i \in 1 .. Len(Alphabet) : Alphabet[i] = c]

Code(c) == CodeTable[c]

FirstUpper == Code("A")
FirstLower == Code("a")
FirstDigit == Code("0")

IsUpper(c) == Code(c) >= FirstUpper /\ Code(c) < FirstUpper + 26
IsDigit(c) == Code(c) >= FirstDigit /\ Code(c) < FirstDigit + 10

LowerTable ==
    [c \in Chars |-> IF IsUpper(c) THEN Alphabet[Code(c) - FirstUpper + FirstLower] ELSE c]

(* strings.ToLower *)
ToLower(s) == [i \in 1 .. Len(s) |-> LowerTable[s[i]]]

(* strings.EqualFold *)
EqualFold(s, t) == ToLower(s) = ToLower(t)

(* strings.TrimSpace *)
RECURSIVE TrimLeft(_)
TrimLeft(s) == IF s # <<>> /\ Head(s) = " " THEN TrimLeft(Tail(s)) ELSE s

RECURSIVE TrimRight(_)
TrimRight(s) ==
    IF s # <<>> /\ s[Len(s)] = " " THEN TrimRight(SubSeq(s, 1, Len(s) - 1)) ELSE s

TrimSpace(s) == TrimRight(TrimLeft(s))

(* strings.Contains *)
Contains(s, substr) ==
    \E i \in 0 .. Len(s) - Len(substr) : SubSeq(s, i + 1, i + Len(substr)) = substr

(* strings.Split(s, sep) for a separator of one character: never empty.     *)
RECURSIVE SplitFrom(_, _, _)
SplitFrom(s, sep, piece) ==
    IF s = <<>> THEN <<piece>>
    ELSE IF Head(s) = sep THEN <<piece>> \o SplitFrom(Tail(s), sep, <<>>)
    ELSE SplitFrom(Tail(s), sep, Append(piece, Head(s)))

Split(s, sep) == SplitFrom(s, sep, <<>>)

(* strconv.Atoi: an optional sign and at least one decimal digit.           *)
RECURSIVE DigitsValue(_, _)
DigitsValue(s, acc) ==
    IF s = <<>> THEN acc
    ELSE DigitsValue(Tail(s), 10 * acc + (Code(Head(s)) - FirstDigit))

Atoi(s) ==
    LET signed == s # <<>> /\ Head(s) = "-"
        digits == IF signed THEN Tail(s) ELSE s
    IN  IF digits = <<>> \/ \E i \in 1 .. Len(digits) : ~IsDigit(digits[i])
        THEN [ok |-> FALSE, value |-> 0]
        ELSE [ok |-> TRUE,
              value |-> IF signed THEN 0 - DigitsValue(digits, 0) ELSE DigitsValue(digits, 0)]

(* The byte order of strings that sort.Strings uses.                        *)
RECURSIVE StrLess(_, _)
StrLess(s, t) ==
    IF t = <<>> THEN FALSE
    ELSE IF s = <<>> THEN TRUE
    ELSE IF Head(s) = Head(t) THEN StrLess(Tail(s), Tail(t))
    ELSE Code(Head(s)) < Code(Head(t))

----------------------------------------------------------------------------
(* The occurrence of the configured interests (nextInterestOccurrence).     *)
(* An interest is a record [Day, Time, Title, DayEnglish] of strings; the   *)
(* configured interests map a club name to a sequence of interests.         *)

WeekdayNames ==
    << <<"s", "u", "n", "d", "a", "y">>,
       <<"m", "o", "n", "d", "a", "y">>,
       <<"t", "u", "e", "s", "d", "a", "y">>,
       <<"w", "e", "d", "n", "e", "s", "d", "a", "y">>,
       <<"t", "h", "u", "r", "s", "d", "a", "y">>,
       <<"f", "r", "i", "d", "a", "y">>,
       <<"s", "a", "t", "u", "r", "d", "a", "y">> >>

parseWeekday(day) ==
    LET name == ToLower(TrimSpace(day))
    IN  IF \E i \in 1 .. 7 : WeekdayNames[i] = name
        THEN [ok |-> TRUE, weekday |-> (CHOOSE i \in 1 .. 7 : WeekdayNames[i] = name) - 1]
        ELSE [ok |-> FALSE, weekday |-> 0]

parseStartTime(raw) ==
    LET parts == Split(raw, "-")
        start == TrimSpace(parts[1])
        hm == Split(start, ":")
        hour == Atoi(TrimSpace(hm[1]))
        minute == Atoi(TrimSpace(hm[2]))
    IN  IF Len(hm) < 2 THEN [ok |-> FALSE, hour |-> 0, minute |-> 0]
        ELSE IF ~hour.ok THEN [ok |-> FALSE, hour |-> 0, minute |-> 0]
        ELSE IF ~minute.ok THEN [ok |-> FALSE, hour |-> 0, minute |-> 0]
        ELSE [ok |-> TRUE, hour |-> hour.value, minute |-> minute.value]

(* sortedKeys: the club names of the map in ascending order.                *)
RECURSIVE SortStrings(_)
SortStrings(keys) ==
    IF keys = {} THEN <<>>
    ELSE LET least == CHOOSE k \in keys : \A other \in keys \ {k} : StrLess(k, other)
         IN  <<least>> \o SortStrings(keys \ {least})

sortedKeys(m) == SortStrings(DOMAIN m)

(* The pairs (club, interest) in the order both nextInterestOccurrence and  *)
(* scheduleInterests visit them: clubs ascending, a club's interests in     *)
(* configuration order.                                                     *)
RECURSIVE HandlesOf(_, _)
HandlesOf(m, keys) ==
    IF keys = <<>> THEN <<>>
    ELSE [i \in 1 .. Len(m[Head(keys)]) |->
              [Club |-> Head(keys), Interest |-> m[Head(keys)][i]]]
         \o HandlesOf(m, Tail(keys))

InterestHandles(m) == HandlesOf(m, sortedKeys(m))

NoInterest == [Day |-> <<>>, Time |-> <<>>, Title |-> <<>>, DayEnglish |-> <<>>]
NoHandle == [Club |-> <<>>, Interest |-> NoInterest]

(* A choice that lets a later interest with the same occurrence win.        *)
RECURSIVE EarliestOfLastWins(_, _, _, _, _, _)
EarliestOfLastWins(handles, loc, reference, found, nextHandle, nextTime) ==
    IF handles = <<>>
    THEN IF found
         THEN [err |-> "", handle |-> nextHandle, time |-> nextTime]
         ELSE [err |-> "no interests", handle |-> NoHandle, time |-> 0]
    ELSE LET h == Head(handles)
             weekday == parseWeekday(h.Interest.DayEnglish)
             clock == parseStartTime(h.Interest.Time)
             occurrence == computeNextOccurrence(reference, loc, weekday.weekday,
                                                 clock.hour, clock.minute)
         IN  IF ~weekday.ok THEN [err |-> "weekday", handle |-> h, time |-> 0]
             ELSE IF ~clock.ok THEN [err |-> "time", handle |-> h, time |-> 0]
             ELSE IF ~found \/ occurrence <= nextTime
                  THEN EarliestOfLastWins(Tail(handles), loc, reference, TRUE, h, occurrence)
                  ELSE EarliestOfLastWins(Tail(handles), loc, reference, TRUE, nextHandle, nextTime)

(* The loop body of nextInterestOccurrence over the remaining handles; err  *)
(* is "" (none), "weekday", "time" or "no interests".                       *)
RECURSIVE EarliestOf(_, _, _, _, _, _)
EarliestOf(handles, loc, reference, found, nextHandle, nextTime) ==
    IF handles = <<>>
    THEN IF found
         THEN [err |-> "", handle |-> nextHandle, time |-> nextTime]
         ELSE [err |-> "no interests", handle |-> NoHandle, time |-> 0]
    ELSE LET h == Head(handles)
             weekday == parseWeekday(h.Interest.DayEnglish)
             clock == parseStartTime(h.Interest.Time)
             occurrence == computeNextOccurrence(reference, loc, weekday.weekday,
                                                 clock.hour, clock.minute)
         IN  IF ~weekday.ok THEN [err |-> "weekday", handle |-> h, time |-> 0]
             ELSE IF ~clock.ok THEN [err |-> "time", handle |-> h, time |-> 0]
             ELSE IF ~found \/ occurrence < nextTime
                  THEN EarliestOf(Tail(handles), loc, reference, TRUE, h, occurrence)
                  ELSE EarliestOf(Tail(handles), loc, reference, TRUE, nextHandle, nextTime)

(* A calculator whose error for an empty configuration is not the          *)
(* errNoInterests value the loop tests for.                                 *)
nextInterestOccurrenceOtherError(interests, loc, reference) ==
    LET r == EarliestOf(InterestHandles(interests), loc, reference, FALSE, NoHandle, 0)
    IN  IF r.err = "no interests" THEN [r EXCEPT !.err = "no class interests"] ELSE r

nextInterestOccurrence(interests, loc, reference) ==
    EarliestOf(InterestHandles(interests), loc, reference, FALSE, NoHandle, 0)

interestsEqual(a, b) ==
    /\ a.Day = b.Day
    /\ a.DayEnglish = b.DayEnglish
    /\ a.Time = b.Time
    /\ a.Title = b.Title

----------------------------------------------------------------------------
(* The session matcher.  A class is a record [ClubID, ClubName, Day, Time,  *)
(* Title, ClassID, Bookable, Booked]; ClubName, Day, Time and Title are     *)
(* strings as above, the identifiers are opaque ("" when missing).          *)

(* A matcher that looks for the time filter inside the time range.          *)
interestMatchesTimeWithin(classInfo, interest, logger) ==
    LET normalizedDay == ToLower(TrimSpace(classInfo.Day))
        dayNeedle == ToLower(TrimSpace(interest.Day))
        normalizedTime == TrimSpace(classInfo.Time)
        timeNeedle == TrimSpace(interest.Time)
        titleNeedleRaw == TrimSpace(interest.Title)
        titleNeedle == ToLower(titleNeedleRaw)
        classTitle == ToLower(TrimSpace(classInfo.Title))
    IN  IF dayNeedle # <<>> /\ ~Contains(normalizedDay, dayNeedle)
        THEN [match |-> FALSE, log |-> ""]
        ELSE IF timeNeedle # <<>> /\ ~Contains(ToLower(normalizedTime), ToLower(timeNeedle))
        THEN [match |-> FALSE, log |-> ""]
        ELSE IF titleNeedleRaw = <<>>
        THEN [match |-> TRUE, log |-> IF logger THEN "no title filter" ELSE ""]
        ELSE IF EqualFold(TrimSpace(classInfo.Title), titleNeedleRaw)
        THEN [match |-> TRUE, log |-> ""]
        ELSE IF Contains(classTitle, titleNeedle)
        THEN [match |-> TRUE, log |-> IF logger THEN "partial title match" ELSE ""]
        ELSE [match |-> FALSE, log |-> ""]

(* A matcher that knows only the exact title.                               *)
interestMatchesExactTitle(classInfo, interest, logger) ==
    LET normalizedDay == ToLower(TrimSpace(classInfo.Day))
        dayNeedle == ToLower(TrimSpace(interest.Day))
        normalizedTime == TrimSpace(classInfo.Time)
        timeNeedle == TrimSpace(interest.Time)
        titleNeedleRaw == TrimSpace(interest.Title)
    IN  IF dayNeedle # <<>> /\ ~Contains(normalizedDay, dayNeedle)
        THEN [match |-> FALSE, log |-> ""]
        ELSE IF timeNeedle # <<>> /\ ~EqualFold(normalizedTime, timeNeedle)
        THEN [match |-> FALSE, log |-> ""]
        ELSE IF titleNeedleRaw = <<>>
        THEN [match |-> TRUE, log |-> IF logger THEN "no title filter" ELSE ""]
        ELSE IF EqualFold(TrimSpace(classInfo.Title), titleNeedleRaw)
        THEN [match |-> TRUE, log |-> ""]
        ELSE [match |-> FALSE, log |-> ""]

(* interestMatches: whether the class satisfies the interest, and the       *)
(* event it hands to the logger ("" for none); without a logger (logger =   *)
(* FALSE for nil) nothing is logged.                                        *)
interestMatches(classInfo, interest, logger) ==
    LET normalizedDay == ToLower(TrimSpace(classInfo.Day))
        dayNeedle == ToLower(TrimSpace(interest.Day))
        normalizedTime == TrimSpace(classInfo.Time)
        timeNeedle == TrimSpace(interest.Time)
        titleNeedleRaw == TrimSpace(interest.Title)
        titleNeedle == ToLower(titleNeedleRaw)
        classTitle == ToLower(TrimSpace(classInfo.Title))
    IN  IF dayNeedle # <<>> /\ ~Contains(normalizedDay, dayNeedle)
        THEN [match |-> FALSE, log |-> ""]
        ELSE IF timeNeedle # <<>> /\ ~EqualFold(normalizedTime, timeNeedle)
        THEN [match |-> FALSE, log |-> ""]
        ELSE IF titleNeedleRaw = <<>>
        THEN [match |-> TRUE, log |-> IF logger THEN "no title filter" ELSE ""]
        ELSE IF EqualFold(TrimSpace(classInfo.Title), titleNeedleRaw)
        THEN [match |-> TRUE, log |-> ""]
        ELSE IF Contains(classTitle, titleNeedle)
        THEN [match |-> TRUE, log |-> IF logger THEN "partial title match" ELSE ""]
        ELSE [match |-> FALSE, log |-> ""]

NoClass ==
    [ClubID |-> "", ClubName |-> <<>>, Day |-> <<>>, Time |-> <<>>, Title |-> <<>>,
     ClassID |-> "", Bookable |-> FALSE, Booked |-> FALSE]

(* findMatchingClass: the first class of the club that matches.             *)
RECURSIVE findMatchingClass(_, _, _)
findMatchingClass(classes, clubName, interest) ==
    IF classes = <<>> THEN [found |-> FALSE, class |-> NoClass]
    ELSE IF Head(classes).ClubName = clubName
            /\ interestMatches(Head(classes), interest, FALSE).match
         THEN [found |-> TRUE, class |-> Head(classes)]
         ELSE findMatchingClass(Tail(classes), clubName, interest)

----------------------------------------------------------------------------
(* The booking session.  An absolute URL (its String()) is the sequence     *)
(* <<host, segment, ...>>.  A base URL is [host, dir, slash]: the segments  *)
(* of its path and whether the path ends in a slash.  A Location header is  *)
(* [kind, host, path] with kind "empty" (no header), "invalid" (url.Parse   *)
(* fails), "absolute" (https://host/path), "rooted" (/path) or "relative"   *)
(* (path).                                                                  *)

StatusOK == 200
StatusFound == 302

(* URL.JoinPath(elem).String() *)
JoinPath(base, elem) == <<base.host>> \o base.dir \o <<elem>>

(* URL.ResolveReference(ref).String(): a relative path replaces the last    *)
(* segment of the base path.                                                *)
ResolveReference(base, ref) ==
    CASE ref.kind = "absolute" -> <<ref.host>> \o ref.path
      [] ref.kind = "rooted" -> <<base.host>> \o ref.path
      [] OTHER ->
            <<base.host>>
            \o (IF base.slash \/ base.dir = <<>>
                THEN base.dir
                ELSE SubSeq(base.dir, 1, Len(base.dir) - 1))
            \o ref.path

(* normalizeLocation: an empty or unparsable header comes back as it is.    *)
normalizeLocation(base, loc) ==
    IF loc.kind = "empty" THEN <<>>
    ELSE IF loc.kind = "invalid" THEN <<"", "%">>
    ELSE ResolveReference(base, loc)

NoSession == [open |-> FALSE, baseURL |-> [host |-> "", dir |-> <<>>, slash |-> FALSE]]
NoError == [kind |-> "", status |-> 0, location |-> <<>>]

(* A login that takes every status below 400 for success.                   *)
newBookingSessionAnyStatus(baseURL, creds, resp) ==
    IF creds.Email = "" \/ creds.Password = ""
    THEN [session |-> NoSession, posted |-> FALSE,
          err |-> [NoError EXCEPT !.kind = "credentials required"]]
    ELSE IF resp.failed
    THEN [session |-> NoSession, posted |-> TRUE,
          err |-> [NoError EXCEPT !.kind = "login request"]]
    ELSE IF resp.status >= 400
    THEN [session |-> NoSession, posted |-> TRUE,
          err |-> [NoError EXCEPT !.kind = "expected redirect", !.status = resp.status]]
    ELSE IF normalizeLocation(baseURL, resp.location) # JoinPath(baseURL, "dashboard.php")
    THEN [session |-> NoSession, posted |-> TRUE,
          err |-> [NoError EXCEPT !.kind = "unexpected redirect",
                                  !.location = normalizeLocation(baseURL, resp.location)]]
    ELSE [session |-> [open |-> TRUE, baseURL |-> baseURL], posted |-> TRUE,
          err |-> NoError]

(* newBookingSession: creds is [Email, Password], resp the answer to the    *)
(* login request, [failed, status, location] (failed: no response at all).  *)
(* posted tells whether the login request was sent.                         *)
newBookingSession(baseURL, creds, resp) ==
    IF creds.Email = "" \/ creds.Password = ""
    THEN [session |-> NoSession, posted |-> FALSE,
          err |-> [NoError EXCEPT !.kind = "credentials required"]]
    ELSE IF resp.failed
    THEN [session |-> NoSession, posted |-> TRUE,
          err |-> [NoError EXCEPT !.kind = "login request"]]
    ELSE IF resp.status # StatusFound
    THEN [session |-> NoSession, posted |-> TRUE,
          err |-> [NoError EXCEPT !.kind = "expected redirect", !.status = resp.status]]
    ELSE IF normalizeLocation(baseURL, resp.location) # JoinPath(baseURL, "dashboard.php")
    THEN [session |-> NoSession, posted |-> TRUE,
          err |-> [NoError EXCEPT !.kind = "unexpected redirect",
                                  !.location = normalizeLocation(baseURL, resp.location)]]
    ELSE [session |-> [open |-> TRUE, baseURL |-> baseURL], posted |-> TRUE,
          err |-> NoError]

(* A booking that sends the request without looking at the identifiers.     *)
BookClassUnchecked(s, clubID, classID, resp) ==
    IF ~s.open
    THEN [success |-> FALSE, sent |-> FALSE,
          err |-> [NoError EXCEPT !.kind = "not initialised"]]
    ELSE IF resp.failed
    THEN [success |-> FALSE, sent |-> TRUE,
          err |-> [NoError EXCEPT !.kind = "booking request"]]
    ELSE IF resp.status = StatusOK
    THEN [success |-> TRUE, sent |-> TRUE, err |-> NoError]
    ELSE [success |-> FALSE, sent |-> TRUE,
          err |-> [NoError EXCEPT !.kind = "unexpected status", !.status = resp.status]]

(* A booking that takes every redirect for a confirmation.                  *)
BookClassAnyTarget(s, clubID, classID, resp) ==
    IF ~s.open
    THEN [success |-> FALSE, sent |-> FALSE,
          err |-> [NoError EXCEPT !.kind = "not initialised"]]
    ELSE IF clubID = "" \/ classID = ""
    THEN [success |-> FALSE, sent |-> FALSE,
          err |-> [NoError EXCEPT !.kind = "ids required"]]
    ELSE IF resp.failed
    THEN [success |-> FALSE, sent |-> TRUE,
          err |-> [NoError EXCEPT !.kind = "booking request"]]
    ELSE IF resp.status = StatusFound \/ resp.status = StatusOK
    THEN [success |-> TRUE, sent |-> TRUE, err |-> NoError]
    ELSE [success |-> FALSE, sent |-> TRUE,
          err |-> [NoError EXCEPT !.kind = "unexpected status", !.status = resp.status]]

(* BookClass: resp is the answer to the booking request.  sent tells        *)
(* whether the request was sent.                                            *)
BookClass(s, clubID, classID, resp) ==
    IF ~s.open
    THEN [success |-> FALSE, sent |-> FALSE,
          err |-> [NoError EXCEPT !.kind = "not initialised"]]
    ELSE IF clubID = "" \/ classID = ""
    THEN [success |-> FALSE, sent |-> FALSE,
          err |-> [NoError EXCEPT !.kind = "ids required"]]
    ELSE IF resp.failed
    THEN [success |-> FALSE, sent |-> TRUE,
          err |-> [NoError EXCEPT !.kind = "booking request"]]
    ELSE IF resp.status = StatusFound
    THEN IF normalizeLocation(s.baseURL, resp.location)
              = JoinPath(s.baseURL, "member-schedule.php")
         THEN [success |-> TRUE, sent |-> TRUE, err |-> NoError]
         ELSE [success |-> FALSE, sent |-> TRUE,
               err |-> [NoError EXCEPT !.kind = "booking rejected",
                            !.location = normalizeLocation(s.baseURL, resp.location)]]
    ELSE IF resp.status = StatusOK
    THEN [success |-> TRUE, sent |-> TRUE, err |-> NoError]
    ELSE [success |-> FALSE, sent |-> TRUE,
          err |-> [NoError EXCEPT !.kind = "unexpected status", !.status = resp.status]]

----------------------------------------------------------------------------
(* One scheduling pass (scheduleInterests).                                 *)

statusNoMatch == "no match"
statusAlreadyBooked == "already booked"
statusNotOpen == "not open"
statusBooked == "booked"
statusBookingFailed == "booking failed"
statusMissingData == "missing data"

(* The state of a pass: the results so far, the pass's booking session,     *)
(* and what it has sent: sessions opened, login requests posted, the        *)
(* booking requests (books) and the number of BookClass calls.              *)
PassStart ==
    [results |-> <<>>, err |-> "", cause |-> NoError, bookSession |-> NoSession,
     matches |-> 0, sessions |-> 0, posts |-> 0, books |-> <<>>, calls |-> 0]

(* The body of the loop over the interests for the remaining handles.       *)
(* login is the portal's answer to a login request of this pass, bookings   *)
(* its answers to the pass's booking requests, in order.                    *)
RECURSIVE scheduleEach(_, _, _, _, _, _, _)
scheduleEach(handles, classes, baseURL, creds, login, bookings, pass) ==
    IF handles = <<>> THEN pass
    ELSE
    LET h == Head(handles)
        res == [ClubName |-> h.Club, Interest |-> h.Interest, Status |-> statusNoMatch]
        m == findMatchingClass(classes, h.Club, h.Interest)
        classInfo == m.class
        settle(status, p) ==
            scheduleEach(Tail(handles), classes, baseURL, creds, login, bookings,
                [p EXCEPT !.results = Append(@, [res EXCEPT !.Status = status])])
        matched == [pass EXCEPT !.matches = @ + 1]
        opened == newBookingSession(baseURL, creds, login)
        withSession ==
            IF matched.bookSession.open THEN matched
            ELSE [matched EXCEPT !.bookSession = opened.session,
                                 !.sessions = @ + (IF opened.session.open THEN 1 ELSE 0),
                                 !.posts = @ + (IF opened.posted THEN 1 ELSE 0)]
        booking == BookClass(withSession.bookSession, classInfo.ClubID, classInfo.ClassID,
                             bookings[withSession.calls + 1])
        booked ==
            [withSession EXCEPT
                !.calls = @ + 1,
                !.books = IF booking.sent
                          THEN Append(@, [ClubID |-> classInfo.ClubID,
                                          ClassID |-> classInfo.ClassID])
                          ELSE @]
    IN  IF ~m.found THEN settle(statusNoMatch, pass)
        ELSE IF classInfo.Booked THEN settle(statusAlreadyBooked, matched)
        ELSE IF ~classInfo.Bookable THEN settle(statusNotOpen, matched)
        ELSE IF classInfo.ClassID = "" THEN settle(statusMissingData, matched)
        ELSE IF classInfo.ClubID = "" THEN settle(statusMissingData, matched)
        ELSE IF ~withSession.bookSession.open
        THEN [withSession EXCEPT !.results = <<>>, !.err = "start booking session",
                                 !.cause = opened.err]
        ELSE IF booking.err.kind # "" THEN settle(statusBookingFailed, booked)
        ELSE IF booking.success THEN settle(statusBooked, booked)
        ELSE settle(statusBookingFailed, booked)

(* A pass that a failed booking aborts.                                      *)
scheduleInterestsAborting(fetch, baseURL, creds, interests, login, bookings) ==
    LET p == IF fetch.failed
             THEN [PassStart EXCEPT !.err = "fetch classes"]
             ELSE scheduleEach(InterestHandles(interests), fetch.classes, baseURL, creds,
                               login, bookings, PassStart)
    IN  IF \E i \in 1 .. Len(p.results) : p.results[i].Status = statusBookingFailed
        THEN [p EXCEPT !.results = <<>>, !.err = "book class"]
        ELSE p

(* scheduleInterests: fetch is the outcome of FetchClasses, [failed,        *)
(* classes].                                                                *)
scheduleInterests(fetch, baseURL, creds, interests, login, bookings) ==
    IF fetch.failed
    THEN [PassStart EXCEPT !.err = "fetch classes"]
    ELSE scheduleEach(InterestHandles(interests), fetch.classes, baseURL, creds,
                      login, bookings, PassStart)

(* A test that takes only a fresh booking for satisfied.                    *)
RECURSIVE interestSatisfiedBookedOnly(_, _)
interestSatisfiedBookedOnly(h, results) ==
    IF results = <<>> THEN FALSE
    ELSE IF Head(results).ClubName = h.Club
            /\ interestsEqual(Head(results).Interest, h.Interest)
         THEN Head(results).Status = statusBooked
         ELSE interestSatisfiedBookedOnly(h, Tail(results))

(* interestSatisfied: the first result of the interest is booked or        *)
(* already booked.                                                          *)
RECURSIVE interestSatisfied(_, _)
interestSatisfied(h, results) ==
    IF results = <<>> THEN FALSE
    ELSE IF Head(results).ClubName = h.Club
            /\ interestsEqual(Head(results).Interest, h.Interest)
         THEN Head(results).Status \in {statusBooked, statusAlreadyBooked}
         ELSE interestSatisfied(h, Tail(results))

----------------------------------------------------------------------------
(* Loop mode (runScheduleLoop): constants, configuration and inputs.        *)

bookingLeadTime == 26 * Hour
bookingEarlyBuffer == 1 * Minute
bookingRetryDelay == 10
bookingGracePeriod == 1 * Minute
idleLoopDelay == Hour

(* time.LoadLocation: the locations the model knows by name.                *)
LocationNames ==
    {"Etc/GMT-2", "Europe/Bucharest (March)", "Europe/Bucharest (October)"}

LoadLocation(name) ==
    CASE name = "Etc/GMT-2" -> [ok |-> TRUE, loc |-> FixedZone]
      [] name = "Europe/Bucharest (March)" -> [ok |-> TRUE, loc |-> SpringZone]
      [] name = "Europe/Bucharest (October)" -> [ok |-> TRUE, loc |-> FallZone]
      [] OTHER -> [ok |-> FALSE, loc |-> FixedZone]

(* NewWorldClassClient: the base URL must be non-empty and parse.           *)
PortalHost == "members.worldclass.ro"
DefaultBase == [host |-> PortalHost, dir |-> <<>>, slash |-> FALSE]

NewWorldClassClient(rawBaseURL) ==
    CASE rawBaseURL = "" -> [ok |-> FALSE, baseURL |-> DefaultBase]
      [] rawBaseURL = "https://members.worldclass.ro" -> [ok |-> TRUE, baseURL |-> DefaultBase]
      [] OTHER -> [ok |-> FALSE, baseURL |-> DefaultBase]

(* initSentry: disabled without a DSN, an error for a DSN sentry.Init       *)
(* rejects.                                                                 *)
ValidDSN == "https://key@sentry.example/1"

initSentryRequired(dsn) ==
    IF dsn # ValidDSN THEN [enabled |-> FALSE, ok |-> FALSE]
    ELSE [enabled |-> TRUE, ok |-> TRUE]

initSentry(dsn) ==
    IF dsn = "" THEN [enabled |-> FALSE, ok |-> TRUE]
    ELSE IF dsn # ValidDSN THEN [enabled |-> FALSE, ok |-> FALSE]
    ELSE [enabled |-> TRUE, ok |-> TRUE]

(* The wake time and the cutoff of an occurrence, and the cutoff test.      *)
wakeTimeAtOpen(start) == start - bookingLeadTime
wakeTimeOf(start) == start - bookingLeadTime - bookingEarlyBuffer
deadlineBeforeStart(start) == start - bookingGracePeriod
deadlineOf(start) == start + bookingGracePeriod
cutoffPassedGraceTwice(t, cutoff) == t > cutoff + bookingGracePeriod
cutoffPassedFromNow(t, cutoff) == t > t + bookingGracePeriod
cutoffPassed(t, cutoff) == t > cutoff

(* The configured interests of the model.                                   *)
Atrium == <<"A", "t", "r", "i", "u", "m">>
Plaza == <<"P", "l", "a", "z", "a">>

YogaMonday ==
    [Day |-> <<"L", "u", "n", "i">>,
     Time |-> <<"0", "9", ":", "0", "0", "-", "1", "0", ":", "0", "0">>,
     Title |-> <<"Y", "o", "g", "a">>,
     DayEnglish |-> <<"M", "o", "n", "d", "a", "y">>]

SpinTuesday ==
    [Day |-> <<"M", "a", "r", "t", "i">>,
     Time |-> <<"1", "0", ":", "5", "5", "-", "1", "1", ":", "5", "5">>,
     Title |-> <<>>,
     DayEnglish |-> <<" ", "T", "U", "E", "S", "D", "A", "Y">>]

BadWeekday == [YogaMonday EXCEPT !.DayEnglish = <<"L", "u", "n", "i">>]
BadTime == [SpinTuesday EXCEPT !.Time = <<"1", "0", "-", "1", "1">>]

InterestMaps ==
    { <<>>,
      (Atrium :> <<>>),
      (Atrium :> <<YogaMonday>>),
      (Plaza :> <<SpinTuesday>>),
      (Plaza :> <<SpinTuesday>>) @@ (Atrium :> <<YogaMonday>>),
      (Atrium :> <<YogaMonday, BadTime>>),
      (Plaza :> <<BadWeekday>>) @@ (Atrium :> <<YogaMonday>>) }

Credentials == [Email |-> "member@example.com", Password |-> "secret"]

Configs ==
    [Interests : InterestMaps,
     Timezone : LocationNames \cup {"Mars/Olympus"},
     BaseURL : {"https://members.worldclass.ro", "%"},
     Credentials : {Credentials},
     SentryDSN : {"", ValidDSN, "not a dsn"}]

(* What the portal may show and answer during a pass of the loop.           *)
YogaClass ==
    [ClubID |-> "17", ClubName |-> Atrium, Day |-> <<"L", "U", "N", "I">>,
     Time |-> <<"0", "9", ":", "0", "0", "-", "1", "0", ":", "0", "0">>,
     Title |-> <<"Y", "o", "g", "a">>, ClassID |-> "1001",
     Bookable |-> FALSE, Booked |-> FALSE]

PowerYogaClass ==
    [YogaClass EXCEPT !.Title = <<"P", "o", "w", "e", "r", " ", "Y", "O", "G", "A">>,
                      !.ClassID = "1002", !.Bookable = TRUE]

PilatesClass ==
    [YogaClass EXCEPT !.Title = <<"P", "i", "l", "a", "t", "e", "s">>,
                      !.ClassID = "1003", !.Bookable = TRUE]

SpinClass ==
    [ClubID |-> "23", ClubName |-> Plaza, Day |-> <<"M", "a", "r", "t", "i">>,
     Time |-> <<"1", "0", ":", "5", "5", "-", "1", "1", ":", "5", "5">>,
     Title |-> <<"S", "p", "i", "n">>, ClassID |-> "2001",
     Bookable |-> FALSE, Booked |-> FALSE]

(* A class with its booking window open, already reserved, or listed        *)
(* without its identifier.                                                  *)
Open(c) == [c EXCEPT !.Bookable = TRUE]
Reserved(c) == [c EXCEPT !.Booked = TRUE]
Unidentified(c) == [c EXCEPT !.Bookable = TRUE, !.ClassID = ""]
Clubless(c) == [c EXCEPT !.Bookable = TRUE, !.ClubID = ""]

Schedules ==
    { <<>>,
      <<YogaClass>>, <<Open(YogaClass)>>, <<Reserved(YogaClass)>>,
      <<Unidentified(YogaClass)>>,
      <<PilatesClass, Open(YogaClass)>>, <<PowerYogaClass, Reserved(YogaClass)>>,
      <<SpinClass>>, <<Open(SpinClass)>>, <<Reserved(SpinClass)>>,
      <<Open(YogaClass), Open(SpinClass)>> }

Fetches ==
    {[failed |-> TRUE, classes |-> <<>>]}
    \cup {[failed |-> FALSE, classes |-> c] : c \in Schedules}

NoLocation == [kind |-> "empty", host |-> "", path |-> <<>>]
Relative(file) == [kind |-> "relative", host |-> "", path |-> <<file>>]
Rooted(file) == [kind |-> "rooted", host |-> "", path |-> <<file>>]

Unreachable == [failed |-> TRUE, status |-> 0, location |-> NoLocation]
Answer(status, target) == [failed |-> FALSE, status |-> status, location |-> target]

LoginAnswers ==
    {Unreachable, Answer(StatusOK, NoLocation),
     Answer(StatusFound, Relative("dashboard.php"))}

BookingAnswers ==
    {Unreachable, Answer(StatusOK, NoLocation),
     Answer(StatusFound, Rooted("member-schedule.php")),
     Answer(StatusFound, Relative("index.php")),
     Answer(500, NoLocation)}

----------------------------------------------------------------------------
(* Loop mode: the state machine.  pc is "start" (before the loop),          *)
(* "compute" (top of the outer loop), "idle" (sleeping the idle delay),     *)
(* "waiting" (sleeping until the wake time), "retry" (top of the retry      *)
(* loop), "sleep" (sleeping the retry delay) or "returned".                 *)

MaxBootOffset == 1
MaxHorizonMinutes == 12
MaxPassTime == 1
MaxCounted == 2
MaxIdleSleeps == 2

(* The process starts on the first Monday at 06:50 UTC (08:50 EET) or a     *)
(* few seconds later; the model follows the loop up to MaxNow.              *)
BootBase == Day + 6 * Hour + 50 * Minute
BootTimes == {BootBase + 5 * k : k \in 0 .. MaxBootOffset}
MaxNow == BootBase + MaxHorizonMinutes * Minute

(* A loop without interests only sleeps the idle delay: the model follows   *)
(* it for MaxIdleSleeps delays more.                                        *)
WithinHorizon(interests, started, t) ==
    \/ t <= MaxNow
    \/ InterestHandles(interests) = <<>> /\ t <= started + MaxIdleSleeps * idleLoopDelay

(* How long a pass may take, in retry delays.                               *)
PassDurations == {k * bookingRetryDelay : k \in 0 .. MaxPassTime}

NoReport == [mode |-> "", phase |-> "", club |-> <<>>, title |-> <<>>]

(* reportLoopError: the event sent to Sentry, if any.                       *)
reportLoopError(enabled, err, extras) ==
    IF ~enabled \/ err = "" THEN NoReport
    ELSE [mode |-> "loop", phase |-> extras.phase, club |-> extras.club,
          title |-> extras.title]

(* Every outcome a pass for the single handle h can have, over the          *)
(* schedules the portal may show and the answers it may give.               *)
PassOutcomes(h, baseURL, creds) ==
    {scheduleInterests(fetch, baseURL, creds, h.Club :> <<h.Interest>>, login, <<booking>>) :
        fetch \in Fetches, login \in LoginAnswers, booking \in BookingAnswers}

(* The same, tabulated for the handles, client and credentials of Configs.  *)
ConfiguredHandles ==
    UNION {{InterestHandles(m)[i] : i \in 1 .. Len(InterestHandles(m))} : m \in InterestMaps}

PassTable ==
    [h \in ConfiguredHandles, baseURL \in {DefaultBase}, creds \in {Credentials} |->
        PassOutcomes(h, baseURL, creds)]

NoStep ==
    [kind |-> "", err |-> "", status |-> "", sessions |-> 0, books |-> 0,
     report |-> NoReport]

OccAtRest ==
    [reference |-> 0, loc |-> FixedZone, weekday |-> 0, target |-> <<0, 0>>,
     called |-> TRUE, result |-> 0]

LoginAtRest ==
    [baseURL |-> DefaultBase, creds |-> Credentials, resp |-> Unreachable,
     called |-> TRUE,
     result |-> newBookingSession(DefaultBase, Credentials, Unreachable)]

BookAtRest ==
    [session |-> NoSession, clubID |-> "", classID |-> "", resp |-> Unreachable,
     called |-> TRUE, result |-> BookClass(NoSession, "", "", Unreachable)]

MatchAtRest ==
    [classInfo |-> NoClass, interest |-> NoInterest, logger |-> FALSE,
     called |-> TRUE, result |-> interestMatches(NoClass, NoInterest, FALSE)]

NextAtRest ==
    [interests |-> <<>>, loc |-> FixedZone, reference |-> 0,
     called |-> TRUE, result |-> nextInterestOccurrence(<<>>, FixedZone, 0)]

NoRun == [returned |-> TRUE, err |-> "", pass |-> PassStart]

OnceAtRest ==
    [cfg |-> [Interests |-> <<>>, BaseURL |-> "", Credentials |-> Credentials],
     fetch |-> [failed |-> TRUE, classes |-> <<>>], login |-> Unreachable,
     bookings |-> <<>>, called |-> TRUE, result |-> NoRun]

LaterCallsAtRest ==
    /\ bookCall = BookAtRest
    /\ matchCall = MatchAtRest
    /\ nextCall = NextAtRest
    /\ onceCall = OnceAtRest

(* The loop before it starts, with the configuration c at the instant t.    *)
LoopAt(c, t) ==
    /\ cfg = c
    /\ boot = t
    /\ now = t
    /\ pc = "start"
    /\ location = FixedZone
    /\ client = DefaultBase
    /\ sentryEnabled = FALSE
    /\ handle = NoHandle
    /\ startTime = 0
    /\ deadline = 0
    /\ last = NoStep
    /\ windowSessions = 0
    /\ served = {}

Init ==
    /\ occ = OccAtRest
    /\ loginCall = LoginAtRest
    /\ LaterCallsAtRest
    /\ \E c \in Configs, t \in BootTimes : LoopAt(c, t)

(* Lines 394-418: load the timezone, build the client, set up alerting.     *)
Startup ==
    /\ pc = "start"
    /\ LET l == LoadLocation(cfg.Timezone)
           c == NewWorldClassClient(cfg.BaseURL)
           s == initSentry(cfg.SentryDSN)
           failure == IF ~l.ok THEN "load timezone"
                      ELSE IF ~c.ok THEN "base URL"
                      ELSE IF ~s.ok THEN "sentry init" ELSE ""
       IN  IF failure # ""
           THEN /\ pc' = "returned"
                /\ last' = [NoStep EXCEPT !.kind = "fatal", !.err = failure]
                /\ UNCHANGED <<location, client, sentryEnabled>>
           ELSE /\ pc' = "compute"
                /\ location' = l.loc
                /\ client' = c.baseURL
                /\ sentryEnabled' = s.enabled
                /\ last' = NoStep
    /\ UNCHANGED <<callVars, cfg, boot, now, handle, startTime, deadline, windowSessions, served>>

(* Lines 421-439 and 441: compute the next occurrence; without interests    *)
(* go idle, on a malformed interest report and return; otherwise sleep      *)
(* until the wake time or, if it has passed, enter the retry phase.         *)
NextOccurrence ==
    /\ pc = "compute"
    /\ WithinHorizon(cfg.Interests, boot, now)
    /\ LET next == nextInterestOccurrence(cfg.Interests, location, now)
       IN  IF next.err = "no interests"
           THEN /\ pc' = "idle"
                /\ last' = NoStep
                /\ UNCHANGED <<handle, startTime, deadline, windowSessions>>
           ELSE IF next.err # ""
           THEN /\ pc' = "returned"
                /\ last' = [NoStep EXCEPT
                               !.kind = "fatal", !.err = next.err,
                               !.report = reportLoopError(sentryEnabled, next.err,
                                   [phase |-> "next_interest", club |-> <<>>, title |-> <<>>])]
                /\ UNCHANGED <<handle, startTime, deadline, windowSessions>>
           ELSE /\ handle' = next.handle
                /\ startTime' = next.time
                /\ last' = NoStep
                /\ IF wakeTimeOf(next.time) > now
                   THEN /\ pc' = "waiting"
                        /\ UNCHANGED <<deadline, windowSessions>>
                   ELSE /\ pc' = "retry"
                        /\ deadline' = deadlineOf(next.time)
                        /\ windowSessions' = 0
    /\ UNCHANGED <<callVars, cfg, boot, now, location, client, sentryEnabled, served>>

(* Line 426: time.Sleep(idleLoopDelay).                                     *)
IdleSleep ==
    /\ pc = "idle"
    /\ now' = now + idleLoopDelay
    /\ pc' = "compute"
    /\ UNCHANGED <<callVars, cfg, boot, location, client, sentryEnabled, handle, startTime,
                   deadline, last, windowSessions, served>>

(* Lines 436 and 441: time.Sleep(time.Until(wakeTime)), then the cutoff.    *)
WakeUp ==
    /\ pc = "waiting"
    /\ now' = wakeTimeOf(startTime)
    /\ pc' = "retry"
    /\ deadline' = deadlineOf(startTime)
    /\ windowSessions' = 0
    /\ UNCHANGED <<callVars, cfg, boot, location, client, sentryEnabled, handle, startTime,
                   last, served>>

(* Lines 443-446: past the cutoff the occurrence is given up.               *)
RetryAbandon ==
    /\ pc = "retry"
    /\ cutoffPassed(now, deadline)
    /\ pc' = "compute"
    /\ last' = [NoStep EXCEPT !.kind = "abandon"]
    /\ UNCHANGED <<callVars, cfg, boot, now, location, client, sentryEnabled, handle, startTime,
                   deadline, windowSessions, served>>

Min(a, b) == IF a < b THEN a ELSE b

(* A loop that gives up when a pass fails.                                  *)
afterPassReturning(err, satisfied) ==
    IF err # "" THEN "returned" ELSE IF satisfied THEN "compute" ELSE "sleep"

(* A loop that starts the next pass at once.                                *)
afterPassNoDelay(err, satisfied) ==
    IF err # "" THEN "sleep" ELSE IF satisfied THEN "compute" ELSE "retry"

(* Lines 450-462: where the loop goes after a pass: a failed pass and a     *)
(* pass that leaves the interest open go on to the retry delay, a           *)
(* satisfied one leaves the retry loop.                                     *)
afterPass(err, satisfied) ==
    IF err # "" THEN "sleep" ELSE IF satisfied THEN "compute" ELSE "sleep"

(* Lines 443, 448-460: one pass for the current interest alone.  A failed   *)
(* pass is logged and reported, a pass that satisfies the interest ends     *)
(* the retry phase, any other goes on to the retry delay.                   *)
RetryPass ==
    /\ pc = "retry"
    /\ ~cutoffPassed(now, deadline)
    /\ now <= MaxNow
    /\ \E pass \in PassTable[handle, client, cfg.Credentials], took \in PassDurations :
              /\ now' = now + took
              /\ last' = [kind |-> "pass", err |-> pass.err,
                          status |-> IF pass.err = "" THEN pass.results[1].Status ELSE "",
                          sessions |-> pass.sessions, books |-> Len(pass.books),
                          report |-> reportLoopError(sentryEnabled, pass.err,
                                        [phase |-> "booking", club |-> handle.Club,
                                         title |-> handle.Interest.Title])]
              /\ pc' = afterPass(pass.err, interestSatisfied(handle, pass.results))
              /\ windowSessions' = Min(windowSessions + pass.sessions, MaxCounted)
    /\ served' = served \cup {handle}
    /\ UNCHANGED <<callVars, cfg, boot, location, client, sentryEnabled, handle, startTime,
                   deadline>>

(* Line 462: time.Sleep(bookingRetryDelay).                                 *)
RetrySleep ==
    /\ pc = "sleep"
    /\ now' = now + bookingRetryDelay
    /\ pc' = "retry"
    /\ last' = NoStep
    /\ UNCHANGED <<callVars, cfg, boot, location, client, sentryEnabled, handle, startTime,
                   deadline, windowSessions, served>>

Next ==
    \/ Startup
    \/ NextOccurrence
    \/ IdleSleep
    \/ WakeUp
    \/ RetryAbandon
    \/ RetryPass
    \/ RetrySleep

Spec == Init /\ [][Next]_vars

(* The loop is sequential code: every sleep ends (lines 426, 436, 462),    *)
(* every pass returns (line 449) and the cutoff test is reached (line 443). *)
LiveSpec ==
    /\ Init
    /\ [][Next]_vars
    /\ WF_vars(Startup)
    /\ WF_vars(IdleSleep)
    /\ WF_vars(WakeUp)
    /\ WF_vars(RetryAbandon)
    /\ WF_vars(RetryPass)
    /\ WF_vars(RetrySleep)

----------------------------------------------------------------------------
(* The occurrence calculator on its own: a call of computeNextOccurrence    *)
(* with inputs drawn from bounded sets.                                     *)

MaxRefDays == 9
RefStep == 30 * Minute
RefBase == 5 * Day

(* Reference instants: every half hour of MaxRefDays days around the        *)
(* transition, and one second past each.                                    *)
References ==
    {RefBase + k * RefStep + d : k \in 0 .. (MaxRefDays * (Day \div RefStep)), d \in {0, 1}}

Targets == {<<0, 30>>, <<3, 0>>, <<3, 30>>, <<9, 0>>, <<11, 0>>, <<23, 30>>}

(* The loop out of the way: returned, with nothing configured.              *)
LoopAtRest ==
    /\ cfg = [Interests |-> <<>>, Timezone |-> "Etc/GMT-2",
              BaseURL |-> "https://members.worldclass.ro",
              Credentials |-> Credentials, SentryDSN |-> ""]
    /\ boot = 0
    /\ now = 0
    /\ pc = "returned"
    /\ location = FixedZone
    /\ client = DefaultBase
    /\ sentryEnabled = FALSE
    /\ handle = NoHandle
    /\ startTime = 0
    /\ deadline = 0
    /\ last = NoStep
    /\ windowSessions = 0
    /\ served = {}

InitOcc ==
    /\ occ \in [reference : References, loc : Zones, weekday : Weekdays,
                 target : Targets, called : {FALSE}, result : {0}]
    /\ loginCall = LoginAtRest
    /\ LaterCallsAtRest
    /\ LoopAtRest

CallComputeNextOccurrence ==
    /\ ~occ.called
    /\ occ' = [occ EXCEPT !.called = TRUE,
                          !.result =
                  computeNextOccurrence(occ.reference, occ.loc, occ.weekday,
                                        occ.target[1], occ.target[2])]
    /\ UNCHANGED <<loginCall, laterCalls, loopVars>>

NextOcc == CallComputeNextOccurrence

SpecOcc == InitOcc /\ [][NextOcc]_vars

----------------------------------------------------------------------------
(* The opening of a booking session on its own: a call of                   *)
(* newBookingSession with the base URL, the credentials and the portal's    *)
(* answer drawn from bounded sets.                                          *)

BaseURLs ==
    {DefaultBase,
     [host |-> PortalHost, dir |-> <<"portal">>, slash |-> FALSE],
     [host |-> PortalHost, dir |-> <<"portal">>, slash |-> TRUE]}

Locations ==
    {NoLocation,
     [kind |-> "invalid", host |-> "", path |-> <<>>],
     Relative("dashboard.php"), Rooted("dashboard.php"), Relative("index.php"),
     Rooted("member-schedule.php"),
     [kind |-> "rooted", host |-> "", path |-> <<"portal", "dashboard.php">>],
     [kind |-> "absolute", host |-> PortalHost, path |-> <<"dashboard.php">>],
     [kind |-> "absolute", host |-> "login.example.com", path |-> <<"dashboard.php">>]}

Statuses == {200, 301, 302, 303, 401, 500}

Answers == {Unreachable} \cup {Answer(st, l) : st \in Statuses, l \in Locations}

InitLogin ==
    /\ occ = OccAtRest
    /\ loginCall \in [baseURL : BaseURLs,
                       creds : [Email : {"", "member@example.com"}, Password : {"", "secret"}],
                       resp : Answers, called : {FALSE}, result : {LoginAtRest.result}]
    /\ LaterCallsAtRest
    /\ LoopAtRest

CallNewBookingSession ==
    /\ ~loginCall.called
    /\ loginCall' = [loginCall EXCEPT
                        !.called = TRUE,
                        !.result = newBookingSession(loginCall.baseURL, loginCall.creds,
                                                     loginCall.resp)]
    /\ UNCHANGED <<occ, laterCalls, loopVars>>

NextLogin == CallNewBookingSession

SpecLogin == InitLogin /\ [][NextLogin]_vars

----------------------------------------------------------------------------
(* Properties of the occurrence calculator.                                 *)

occCalled == occ.called
targetTime == occ.target[1] * Hour + occ.target[2] * Minute

(* The instant t shows the weekday and the time of day asked for.           *)
OnTarget(loc, t, weekday, tod) ==
    WeekdayOf(loc, t) = weekday /\ TimeOfDay(loc, t) = tod

(* The reference itself shows the weekday and the time of day asked for.    *)
ReferenceOnTarget ==
    OnTarget(occ.loc, occ.reference, occ.weekday, targetTime)

(* Every instant from the reference on that shows the weekday and time of   *)
(* day asked for, over the next fortnight: such an instant reads            *)
(* d * Day + tod on the wall clock under one of the location's offsets.     *)
TargetInstants ==
    {t \in {d * Day + targetTime - o :
                d \in DateOf(occ.loc, occ.reference) - 1 .. DateOf(occ.loc, occ.reference) + 15,
                o \in {occ.loc.before, occ.loc.after}} :
        t >= occ.reference /\ OnTarget(occ.loc, t, occ.weekday, targetTime)}

EarliestTarget == CHOOSE t \in TargetInstants : \A u \in TargetInstants : t <= u

(* The requested time of day exists on every date: it is not in the hour   *)
(* a spring-forward transition skips.                                       *)
TargetOnEveryDate ==
    \A d \in DateOf(occ.loc, occ.reference) .. DateOf(occ.loc, occ.reference) + 15 :
        Wall(occ.loc, GoDate(occ.loc, d, occ.target[1], occ.target[2])) = d * Day + targetTime

(* C2: computeNextOccurrence returns an instant that is not before the      *)
(* reference, falls on the requested weekday and reads exactly the          *)
(* requested hour:minute on the wall clock of the requested timezone, for   *)
(* every reference, also around a daylight-saving shift (stated for the     *)
(* times of day that exist on every date).                                  *)
C2_OccurrenceOnTarget ==
    (occCalled /\ TargetOnEveryDate) =>
        /\ occ.result >= occ.reference
        /\ OnTarget(occ.loc, occ.result, occ.weekday, targetTime)

C4_EarliestOccurrence ==
    (occCalled /\ TargetOnEveryDate) =>
        /\ occ.result = EarliestTarget
        /\ occ.result <= occ.reference + Week
        /\ (WeekdayOf(occ.loc, occ.reference) = occ.weekday
              /\ TimeOfDay(occ.loc, occ.reference) <= targetTime)
           => DateOf(occ.loc, occ.result) = DateOf(occ.loc, occ.reference)
        /\ (WeekdayOf(occ.loc, occ.reference) = occ.weekday
              /\ TimeOfDay(occ.loc, occ.reference) > targetTime)
           => DateOf(occ.loc, occ.result) = DateOf(occ.loc, occ.reference) + 7

----------------------------------------------------------------------------
(* Properties of loop mode.                                                 *)

Retrying == pc \in {"retry", "sleep"}
Running == pc \in {"compute", "waiting", "retry", "sleep"}
cutoff == startTime + bookingGracePeriod

(* The handles of the configuration, when all of them are well formed.      *)
WellConfigured == nextInterestOccurrence(cfg.Interests, location, boot).err = ""
Handles == LET hs == InterestHandles(cfg.Interests) IN {hs[i] : i \in 1 .. Len(hs)}

(* The start of the occurrence of h that was ahead when the process         *)
(* started, and the instant its booking opens.                              *)
FirstStart(h) ==
    computeNextOccurrence(boot, location, parseWeekday(h.Interest.DayEnglish).weekday,
                          parseStartTime(h.Interest.Time).hour,
                          parseStartTime(h.Interest.Time).minute)
OpensAt(h) == FirstStart(h) - bookingLeadTime
Later(a, b) == IF a > b THEN a ELSE b

(* The lateness the statement of C1 below lets pass before it counts an     *)
(* occurrence as missed.                                                    *)
OpenSlack == 2 * Minute

(* C1: every occurrence of every configured interest gets its first pass    *)
(* no later than its booking-open instant (start - 26 h), or at once if     *)
(* the process started after it; neither the retry phase nor the pending    *)
(* start of another interest delays it.  (Stated for the occurrences ahead  *)
(* at process start, with OpenSlack of lateness let pass.)                  *)
C1_EveryInterestServedAtOpen ==
    (Running /\ WellConfigured) =>
        \A h \in Handles :
            now > Later(OpensAt(h), boot) + OpenSlack => h \in served

(* C5: the cutoff of a retry phase is the occurrence's start plus the       *)
(* grace period; no pass starts after it, and the occurrence is given up at *)
(* the first cutoff check that finds the clock past it, and only there.     *)
C5_NoPassAfterCutoff ==
    /\ [](Retrying => deadline = startTime + bookingGracePeriod)
    /\ [][(pc = "retry" /\ last'.kind = "pass") => now <= cutoff]_vars
    /\ [][(pc = "retry" /\ now > cutoff) => (pc' = "compute" /\ last'.kind = "abandon")]_vars
    /\ [][(pc = "retry" /\ last'.kind = "abandon") => (now > cutoff /\ now' = now)]_vars

(* An occurrence has been given up at the first check past its cutoff.      *)
C5_Witness ==
    /\ pc = "compute"
    /\ last.kind = "abandon"
    /\ handle \in served
    /\ now > cutoff
    /\ now <= cutoff + bookingRetryDelay * (MaxPassTime + 1)

(* C6: every retry phase ends: the loop leaves it because the interest was  *)
(* satisfied or because the cutoff has passed (for the phases whose cutoff  *)
(* lies within the instants the model follows).                             *)
C6_RetryPhaseEnds ==
    (Retrying /\ cutoff <= MaxNow)
        ~> (pc = "compute" /\ last.kind \in {"pass", "abandon"})

(* A retry phase with passes behind it has ended at its cutoff.             *)
C6_Witness ==
    pc = "compute" /\ last.kind = "abandon" /\ cutoff <= MaxNow /\ served # {}

(* C7: a pass that ends with the interest booked or already booked ends     *)
(* the retry phase at once; a pass with any other result (no match, not     *)
(* open, missing identifier, booking failed) or with an error goes on to    *)
(* the retry delay of the same phase.                                       *)
C7_SatisfiedPassEndsPhase ==
    last.kind = "pass" =>
        IF last.err = "" /\ last.status \in {statusBooked, statusAlreadyBooked}
        THEN pc = "compute" /\ (last.status = statusBooked => last.books = 1)
        ELSE /\ pc = "sleep"
             /\ last.err = "" =>
                    last.status \in {statusNoMatch, statusNotOpen, statusMissingData,
                                     statusBookingFailed}

(* A pass has booked the class and the loop has left the retry phase.       *)
C7_Witness ==
    last.kind = "pass" /\ last.status = statusBooked /\ pc = "compute"

(* C8: after a retry phase that ended with the occurrence satisfied, the    *)
(* occurrence the loop computes next is strictly later than the satisfied   *)
(* one.                                                                     *)
C8_NextOccurrenceIsLater ==
    (pc = "compute" /\ last.kind = "pass") =>
        nextInterestOccurrence(cfg.Interests, location, now).time > startTime

(* C9: within one retry phase at most one booking session is opened.        *)
C9_OneSessionPerPhase == windowSessions <= 1

----------------------------------------------------------------------------
(* Properties of the booking session.                                       *)

IsRedirect(status) == status >= 300 /\ status < 400
credsGiven == loginCall.creds.Email # "" /\ loginCall.creds.Password # ""
loginTarget == normalizeLocation(loginCall.baseURL, loginCall.resp.location)
dashboardURL == JoinPath(loginCall.baseURL, "dashboard.php")

(* C10: a booking session is opened only when the login is answered with a  *)
(* redirect whose target resolves to the dashboard URL; any other status    *)
(* (HTTP 200 among them) and a redirect to any other location give an       *)
(* error that carries the status or the location, and no session.           *)
C10_LoginNeedsDashboardRedirect ==
    loginCall.called =>
        LET r == loginCall.result
            resp == loginCall.resp
        IN  /\ r.session.open =>
                  /\ ~resp.failed
                  /\ IsRedirect(resp.status)
                  /\ loginTarget = dashboardURL
                  /\ r.err = NoError
            /\ (credsGiven /\ ~resp.failed /\ resp.status # StatusFound) =>
                  /\ r.session = NoSession
                  /\ r.err.kind = "expected redirect"
                  /\ r.err.status = resp.status
            /\ (credsGiven /\ ~resp.failed /\ resp.status = StatusFound
                  /\ loginTarget # dashboardURL) =>
                  /\ r.session = NoSession
                  /\ r.err.kind = "unexpected redirect"
                  /\ r.err.location = loginTarget
            /\ ~r.session.open => (r.session = NoSession /\ r.err.kind # "")

(* A login answered with a redirect to the dashboard has opened a session.  *)
C10_Witness ==
    /\ loginCall.called
    /\ loginCall.result.session.open
    /\ loginCall.resp.status = StatusFound
    /\ loginCall.baseURL.dir # <<>>

----------------------------------------------------------------------------
(* A booking request on its own: a call of BookClass with the session, the  *)
(* identifiers and the portal's answer drawn from bounded sets.             *)

BookSessions == {NoSession} \cup {[open |-> TRUE, baseURL |-> b] : b \in BaseURLs}

BookLocations ==
    {NoLocation,
     [kind |-> "invalid", host |-> "", path |-> <<>>],
     Relative("member-schedule.php"), Rooted("member-schedule.php"),
     Relative("index.php"), Rooted("dashboard.php"),
     [kind |-> "rooted", host |-> "", path |-> <<"portal", "member-schedule.php">>],
     [kind |-> "absolute", host |-> PortalHost, path |-> <<"member-schedule.php">>],
     [kind |-> "absolute", host |-> "login.example.com", path |-> <<"member-schedule.php">>]}

BookAnswers == {Unreachable} \cup {Answer(st, l) : st \in Statuses, l \in BookLocations}

InitBook ==
    /\ occ = OccAtRest
    /\ loginCall = LoginAtRest
    /\ bookCall \in [session : BookSessions, clubID : {"", "17"}, classID : {"", "1001"},
                      resp : BookAnswers, called : {FALSE}, result : {BookAtRest.result}]
    /\ matchCall = MatchAtRest
    /\ nextCall = NextAtRest
    /\ onceCall = OnceAtRest
    /\ LoopAtRest

CallBookClass ==
    /\ ~bookCall.called
    /\ bookCall' = [bookCall EXCEPT
                       !.called = TRUE,
                       !.result = BookClass(bookCall.session, bookCall.clubID,
                                            bookCall.classID, bookCall.resp)]
    /\ UNCHANGED <<occ, loginCall, matchCall, nextCall, onceCall, loopVars>>

NextBook == CallBookClass

SpecBook == InitBook /\ [][NextBook]_vars

----------------------------------------------------------------------------
(* Properties of a booking request.                                         *)

(* The request can be sent: the session is open, both identifiers given.    *)
bookReady ==
    bookCall.session.open /\ bookCall.clubID # "" /\ bookCall.classID # ""
bookTarget == normalizeLocation(bookCall.session.baseURL, bookCall.resp.location)
scheduleListURL == JoinPath(bookCall.session.baseURL, "member-schedule.php")

(* The classification of the answer, with redirect(status) telling which    *)
(* statuses count as a redirect.                                            *)
BookingClassified(redirect(_)) ==
    LET r == bookCall.result
        resp == bookCall.resp
    IN  /\ resp.failed => (~r.success /\ r.err.kind = "booking request")
        /\ (~resp.failed /\ resp.status = StatusOK) => (r.success /\ r.err = NoError)
        /\ (~resp.failed /\ redirect(resp.status) /\ bookTarget = scheduleListURL) =>
               (r.success /\ r.err = NoError)
        /\ (~resp.failed /\ redirect(resp.status) /\ bookTarget # scheduleListURL) =>
               /\ ~r.success
               /\ r.err.kind = "booking rejected"
               /\ r.err.location = bookTarget
        /\ (~resp.failed /\ resp.status # StatusOK /\ ~redirect(resp.status)) =>
               /\ ~r.success
               /\ r.err.kind = "unexpected status"
               /\ r.err.status = resp.status
        /\ r.success =>
               /\ ~resp.failed
               /\ \/ resp.status = StatusOK
                  \/ redirect(resp.status) /\ bookTarget = scheduleListURL

IsFound(status) == status = StatusFound

(* C11 as stated: HTTP 200 is success, a redirect (any 3xx status) to the   *)
(* schedule listing is success, a redirect elsewhere is a rejection that    *)
(* carries the target, any other status is an unexpected-status failure,    *)
(* and a transport error is a failure.                                      *)
C11_RedirectClassified ==
    (bookCall.called /\ bookReady) => BookingClassified(IsRedirect)

(* C11 amended: the same classification with the one redirect status the    *)
(* code knows, 302 Found: every other status but 200, the other 3xx         *)
(* statuses included, is an unexpected-status failure whatever its target;  *)
(* a request that cannot be sent is a failure too.                          *)
C11_FoundClassified ==
    bookCall.called =>
        /\ bookReady => BookingClassified(IsFound)
        /\ ~bookReady => (~bookCall.result.success /\ bookCall.result.err.kind # "")

(* A booking answered with 302 to the schedule listing is a success, for a  *)
(* portal under a path.                                                     *)
C11_Witness ==
    /\ bookCall.called
    /\ bookCall.result.success
    /\ bookCall.resp.status = StatusFound
    /\ bookCall.session.baseURL.dir # <<>>

----------------------------------------------------------------------------
(* The session matcher on its own: a call of interestMatches with the       *)
(* class and the interest drawn from bounded sets.                          *)

ClassDays == {<<"L", "U", "N", "I">>, <<" ", "L", "u", "n", "i", " ">>}
ClassTimes == {<<"0", "9", ":", "0", "0", "-", "1", "0", ":", "0", "0">>, <<"1", "0", ":", "5", "5", "-", "1", "1", ":", "5", "5">>}
ClassTitles == {<<"Y", "o", "g", "a">>, <<"P", "o", "w", "e", "r", " ", "Y", "O", "G", "A">>, <<" ", "P", "i", "l", "a", "t", "e", "s", " ">>, <<>>}

DayFilters == {<<>>, <<"l", "u", "n">>, <<"M", "a", "r", "t", "i">>, <<" ", "l", "u", "n", " ">>}
TimeFilters == {<<>>, <<"0", "9", ":", "0", "0", "-", "1", "0", ":", "0", "0">>, <<"9", ":", "0", "0">>, <<"0", "9", ":", "0", "0", "-", "1", "0", ":", "0", "0", " ">>}
TitleFilters ==
    {<<>>, <<"y", "o", "g", "a">>, <<"Y", "O", "G", "A">>, <<"P", "o", "w", "e", "r", " ", "Y", "o", "g", "a">>, <<"o", "g", "a">>, <<"S", "p", "i", "n">>,
     <<" ", "Y", "o", "g", "a", " ">>, <<" ", " ">>, <<"Y", "o", "g", "a", " ", "F", "l", "o", "w">>}

InitMatch ==
    /\ occ = OccAtRest
    /\ loginCall = LoginAtRest
    /\ bookCall = BookAtRest
    /\ \E d \in ClassDays, t \in ClassTimes, title \in ClassTitles,
          df \in DayFilters, tf \in TimeFilters, f \in TitleFilters, l \in BOOLEAN :
          matchCall =
              [classInfo |-> [YogaClass EXCEPT !.Day = d, !.Time = t, !.Title = title],
               interest |-> [Day |-> df, Time |-> tf, Title |-> f,
                             DayEnglish |-> YogaMonday.DayEnglish],
               logger |-> l, called |-> FALSE, result |-> MatchAtRest.result]
    /\ nextCall = NextAtRest
    /\ onceCall = OnceAtRest
    /\ LoopAtRest

CallInterestMatches ==
    /\ ~matchCall.called
    /\ matchCall' = [matchCall EXCEPT
                        !.called = TRUE,
                        !.result = interestMatches(matchCall.classInfo, matchCall.interest,
                                                   matchCall.logger)]
    /\ UNCHANGED <<occ, loginCall, bookCall, nextCall, onceCall, loopVars>>

NextMatch == CallInterestMatches

SpecMatch == InitMatch /\ [][NextMatch]_vars

----------------------------------------------------------------------------
(* Properties of the session matcher.                                       *)

(* needle occurs in hay, letter case apart.                                 *)
OccursIn(needle, hay) ==
    \E i \in 1 .. Len(hay) - Len(needle) + 1 :
        ToLower(SubSeq(hay, i, i + Len(needle) - 1)) = ToLower(needle)

SameTitle(a, b) == ToLower(a) = ToLower(b)

(* The day and the time filter of the interest pass.                        *)
dayTimePass ==
    /\ \/ TrimSpace(matchCall.interest.Day) = <<>>
       \/ OccursIn(TrimSpace(matchCall.interest.Day), matchCall.classInfo.Day)
    /\ \/ TrimSpace(matchCall.interest.Time) = <<>>
       \/ SameTitle(TrimSpace(matchCall.interest.Time), TrimSpace(matchCall.classInfo.Time))

(* The title rule for the filter f and the session title t.                 *)
TitleRule(f, t) ==
    LET matched == matchCall.result.match
    IN  /\ SameTitle(f, t) => matched
        /\ (f # <<>> /\ Len(f) < Len(t) /\ OccursIn(f, t)) => matched
        /\ (f # <<>> /\ ~OccursIn(f, t)) => ~matched
        /\ f = <<>> => matched

(* C12 as stated: with the day and the time filter passing, a title filter  *)
(* equal to the session title (letter case apart) matches, a filter that    *)
(* is a proper substring of the title matches, a filter that does not       *)
(* occur in the title does not match, an empty filter matches any title.    *)
C12_TitleRule ==
    (matchCall.called /\ dayTimePass) =>
        TitleRule(matchCall.interest.Title, matchCall.classInfo.Title)

(* C12 amended: the same rule for the filter and the session title with     *)
(* the white space around them removed (a filter of blanks is an empty      *)
(* filter); and no match when the day or the time filter fails.             *)
C12_TrimmedTitleRule ==
    matchCall.called =>
        /\ dayTimePass =>
               TitleRule(TrimSpace(matchCall.interest.Title),
                         TrimSpace(matchCall.classInfo.Title))
        /\ ~dayTimePass => ~matchCall.result.match

(* A filter that is a proper substring of the title has matched, and the    *)
(* partial match was handed to the logger.                                  *)
C12_Witness ==
    /\ matchCall.called
    /\ dayTimePass
    /\ matchCall.interest.Day # <<>>
    /\ matchCall.interest.Time # <<>>
    /\ Len(TrimSpace(matchCall.interest.Title)) < Len(TrimSpace(matchCall.classInfo.Title))
    /\ TrimSpace(matchCall.interest.Title) # <<>>
    /\ matchCall.result = [match |-> TRUE, log |-> "partial title match"]

----------------------------------------------------------------------------
(* Properties of loop mode: configuration and errors.                       *)

NoInterestsConfigured == InterestHandles(cfg.Interests) = <<>>

(* C13: with no interest configured (an empty map, or clubs with empty      *)
(* lists) the loop, once started, only alternates between computing and     *)
(* the idle sleep of one hour: it never returns, and never makes a pass.    *)
C13_IdleWithoutInterests ==
    /\ [](NoInterestsConfigured /\ pc # "start" /\ last.kind # "fatal" =>
             pc \in {"compute", "idle"} /\ last = NoStep /\ served = {})
    /\ [][(NoInterestsConfigured /\ pc = "compute") => (pc' = "idle" /\ now' = now)]_vars
    /\ [][(NoInterestsConfigured /\ pc = "idle") =>
             (pc' = "compute" /\ now' = now + Hour)]_vars
    /\ [][(NoInterestsConfigured /\ pc # "start") => pc' # "returned"]_vars

(* A loop whose clubs have empty lists is in its second idle sleep.         *)
C13_Witness ==
    /\ NoInterestsConfigured
    /\ cfg.Interests # <<>>
    /\ pc = "idle"
    /\ now = boot + idleLoopDelay

----------------------------------------------------------------------------
(* The choice of the next interest on its own: a call of                    *)
(* nextInterestOccurrence with the interests, the timezone and the          *)
(* reference drawn from bounded sets.                                       *)

SundayEarly ==
    [Day |-> <<"D", "u", "m", "i", "n", "i", "c", "a">>, Time |-> <<"0", "9", ":", "0", "0", "-", "1", "0", ":", "0", "0">>, Title |-> <<>>,
     DayEnglish |-> <<"S", "u", "n", "d", "a", "y">>]
SundayLater == [SundayEarly EXCEPT !.Time = <<"0", "9", ":", "3", "0", "-", "1", "0", ":", "3", "0">>]
OffClock == [YogaMonday EXCEPT !.Time = <<"2", "5", ":", "7", "0", "-", "2", "6", ":", "7", "0">>]
NoClock == [YogaMonday EXCEPT !.Time = <<>>]
NoWeekday == [SpinTuesday EXCEPT !.DayEnglish = <<>>, !.Time = <<"1", "0", "5", "5">>]
PilatesMonday == [YogaMonday EXCEPT !.Title = <<"P", "i", "l", "a", "t", "e", "s">>]
LowerAtrium == <<"a", "t", "r", "i", "u", "m">>

NextInterestMaps ==
    InterestMaps \cup
    { (Atrium :> <<SundayLater, SundayEarly>>),
      (Plaza :> <<SundayLater>>) @@ (Atrium :> <<SundayEarly, YogaMonday>>),
      (Plaza :> <<YogaMonday>>) @@ (Atrium :> <<YogaMonday>>),
      (Atrium :> <<OffClock>>),
      (Plaza :> <<SpinTuesday>>) @@ (Atrium :> <<YogaMonday, NoClock>>),
      (Plaza :> <<BadTime>>) @@ (Atrium :> <<BadWeekday>>),
      (Plaza :> <<YogaMonday, NoWeekday>>),
      (Atrium :> <<PilatesMonday, YogaMonday>>),
      (LowerAtrium :> <<YogaMonday>>) @@ (Plaza :> <<PilatesMonday>>) }

InitNext ==
    /\ occ = OccAtRest
    /\ loginCall = LoginAtRest
    /\ bookCall = BookAtRest
    /\ matchCall = MatchAtRest
    /\ nextCall \in [interests : NextInterestMaps, loc : Zones, reference : References,
                      called : {FALSE}, result : {NextAtRest.result}]
    /\ onceCall = OnceAtRest
    /\ LoopAtRest

CallNextInterestOccurrence ==
    /\ ~nextCall.called
    /\ nextCall' = [nextCall EXCEPT
                       !.called = TRUE,
                       !.result = nextInterestOccurrence(nextCall.interests, nextCall.loc,
                                                         nextCall.reference)]
    /\ UNCHANGED <<occ, loginCall, bookCall, matchCall, onceCall, loopVars>>

NextNext == CallNextInterestOccurrence

SpecNext == InitNext /\ [][NextNext]_vars

----------------------------------------------------------------------------
(* Properties of the choice of the next interest.                           *)

nextHandles == InterestHandles(nextCall.interests)

(* The start time reads as an hour and a minute of the day.                 *)
ClockInRange(raw) ==
    LET c == parseStartTime(raw)
    IN  c.ok /\ c.hour \in 0 .. 23 /\ c.minute \in 0 .. 59

WeekdayKnown(h) == parseWeekday(h.Interest.DayEnglish).ok
WellFormed(h) == WeekdayKnown(h) /\ ClockInRange(h.Interest.Time)

(* The first instant from the reference on that shows the weekday and the   *)
(* start time of h on the wall clock of the location.                       *)
TrueNext(h) ==
    LET loc == nextCall.loc
        tod == parseStartTime(h.Interest.Time).hour * Hour
               + parseStartTime(h.Interest.Time).minute * Minute
        weekday == parseWeekday(h.Interest.DayEnglish).weekday
        day == DateOf(loc, nextCall.reference)
        instants == {t \in {d * Day + tod - o : d \in day - 1 .. day + 15,
                                                o \in {loc.before, loc.after}} :
                        t >= nextCall.reference /\ OnTarget(loc, t, weekday, tod)}
    IN  CHOOSE t \in instants : \A u \in instants : t <= u

(* C14: for well-formed interests nextInterestOccurrence returns the        *)
(* interest whose next occurrence is the earliest of all, with that         *)
(* instant; for the single interest Monday 09:00-10:00 and a reference of   *)
(* Sunday 12:00 it returns the Monday 09:00 that is 21 hours ahead.         *)
C14_EarliestInterest ==
    (nextCall.called /\ nextHandles # <<>>
        /\ \A i \in 1 .. Len(nextHandles) : WellFormed(nextHandles[i])) =>
        LET r == nextCall.result
        IN  /\ r.err = ""
            /\ \A i \in 1 .. Len(nextHandles) : r.time <= TrueNext(nextHandles[i])
            /\ \E i \in 1 .. Len(nextHandles) :
                   nextHandles[i] = r.handle /\ TrueNext(nextHandles[i]) = r.time
            /\ (nextCall.interests = (Atrium :> <<YogaMonday>>)
                   /\ WeekdayOf(nextCall.loc, nextCall.reference) = 0
                   /\ TimeOfDay(nextCall.loc, nextCall.reference) = 12 * Hour) =>
                   r.time = nextCall.reference + 21 * Hour

(* C15: nextInterestOccurrence fails with the no-interests condition        *)
(* exactly when no interest is configured; when some interest has an        *)
(* unknown weekday or a start time that is no hour:minute of the day it     *)
(* fails with an error that names such an interest and the field, whatever  *)
(* the other interests are; an error comes with no occurrence.              *)
C15_MalformedRejected ==
    nextCall.called =>
        LET r == nextCall.result
        IN  /\ (r.err = "no interests") <=> (nextHandles = <<>>)
            /\ (\E i \in 1 .. Len(nextHandles) : ~WellFormed(nextHandles[i])) =>
                   /\ r.err \in {"weekday", "time"}
                   /\ \E i \in 1 .. Len(nextHandles) : nextHandles[i] = r.handle
                   /\ r.err = "weekday" => ~WeekdayKnown(r.handle)
                   /\ r.err = "time" => ~ClockInRange(r.handle.Interest.Time)
            /\ r.err # "" => r.time = 0

ConfigurationErrors == {"load timezone", "base URL", "sentry init", "weekday", "time"}

(* C16: the loop returns only with a fatal configuration error (timezone,   *)
(* client, alerting, malformed weekday or time), found at startup or at an  *)
(* occurrence computation, and stays returned; no step of a retry phase     *)
(* (failed pass, missed window) and no sleep makes it return.               *)
C16_ReturnsOnlyOnConfigurationError ==
    /\ [](pc = "returned" =>
             (last.kind = "fatal" /\ last.err \in ConfigurationErrors))
    /\ [][(pc # "returned" /\ pc' = "returned") => pc \in {"start", "compute"}]_vars
    /\ [][(pc \in {"idle", "waiting", "retry", "sleep"}) => (pc' # "returned")]_vars
    /\ [][(pc = "returned") => (pc' = "returned")]_vars
    /\ [][(pc = "retry" /\ last'.kind = "pass" /\ last'.err # "") => (pc' = "sleep")]_vars

(* The loop has returned with a malformed interest, found at the first      *)
(* computation.                                                             *)
C16_Witness ==
    pc = "returned" /\ last.err \in {"weekday", "time"} /\ now = boot

(* A pass has failed: it returned an error, or its booking request failed   *)
(* or was not confirmed.                                                    *)
PassFailed ==
    last.kind = "pass" /\ (last.err # "" \/ last.status = statusBookingFailed)

(* C17: with alerting enabled, every error of a pass of a retry phase       *)
(* (discovery failure, login failure, failed booking request) is reported   *)
(* with the phase and the interest's club and title, and the loop goes on   *)
(* to the next retry tick.                                                  *)
C17_PassErrorsReported ==
    (sentryEnabled /\ PassFailed) =>
        /\ last.report = [mode |-> "loop", phase |-> "booking", club |-> handle.Club,
                          title |-> handle.Interest.Title]
        /\ pc = "sleep"

(* C19: with alerting enabled, every failed pass and every successful       *)
(* booking produces a report.                                               *)
C19_FailuresAndSuccessesReported ==
    (sentryEnabled /\ last.kind = "pass"
        /\ (last.err # "" \/ last.status = statusBooked)) =>
        last.report.mode = "loop"

----------------------------------------------------------------------------
(* One-shot mode (runScheduleOnce), called once with every configuration,   *)
(* schedule and answer of the portal drawn below.                           *)

(* A run that counts a failed booking as an error of the run.               *)
runScheduleOnceStrict(c, fetch, login, bookings) ==
    LET built == NewWorldClassClient(c.BaseURL)
        pass == scheduleInterests(fetch, built.baseURL, c.Credentials, c.Interests,
                                  login, bookings)
    IN  IF ~built.ok
        THEN [returned |-> TRUE, err |-> "base URL", pass |-> PassStart]
        ELSE [returned |-> TRUE,
              err |-> IF pass.err # "" THEN pass.err
                      ELSE IF \E i \in 1 .. Len(pass.results) :
                                  pass.results[i].Status = statusBookingFailed
                      THEN "booking failed"
                      ELSE "",
              pass |-> pass]

(* runScheduleOnce: the client is built from the configured base URL, then  *)
(* one pass runs over all the configured interests and its error is the     *)
(* run's error.                                                             *)
runScheduleOnce(c, fetch, login, bookings) ==
    LET built == NewWorldClassClient(c.BaseURL)
        pass == scheduleInterests(fetch, built.baseURL, c.Credentials, c.Interests,
                                  login, bookings)
    IN  IF ~built.ok
        THEN [returned |-> TRUE, err |-> "base URL", pass |-> PassStart]
        ELSE [returned |-> TRUE, err |-> pass.err, pass |-> pass]

(* Schedules with two classes for one interest, and with a class of the     *)
(* first club that cannot be booked before an open class of the second.     *)
OnceSchedules ==
    Schedules \cup
    { <<Open(YogaClass), PowerYogaClass>>, <<YogaClass, PowerYogaClass>>,
      <<Reserved(YogaClass), Open(SpinClass)>>, <<YogaClass, Open(SpinClass)>>,
      <<Unidentified(YogaClass), Open(SpinClass)>>,
      <<Clubless(YogaClass), Open(SpinClass)>> }

OnceFetches ==
    {[failed |-> TRUE, classes |-> <<>>]}
    \cup {[failed |-> FALSE, classes |-> c] : c \in OnceSchedules}

OnceConfigs ==
    [Interests : InterestMaps,
     BaseURL : {"https://members.worldclass.ro", ""},
     Credentials : {Credentials}]

(* The portal's answers to the first and the second booking request.        *)
BookingRounds == {<<a, b>> : a \in BookingAnswers, b \in BookingAnswers}

InitOnce ==
    /\ LoopAtRest
    /\ occ = OccAtRest
    /\ loginCall = LoginAtRest
    /\ bookCall = BookAtRest
    /\ matchCall = MatchAtRest
    /\ nextCall = NextAtRest
    /\ \E c \in OnceConfigs, fetch \in OnceFetches, login \in LoginAnswers,
          bookings \in BookingRounds :
            onceCall = [cfg |-> c, fetch |-> fetch, login |-> login,
                        bookings |-> bookings, called |-> FALSE, result |-> NoRun]

CallRunScheduleOnce ==
    /\ ~onceCall.called
    /\ onceCall' = [onceCall EXCEPT
            !.called = TRUE,
            !.result = runScheduleOnce(onceCall.cfg, onceCall.fetch, onceCall.login,
                                       onceCall.bookings)]
    /\ UNCHANGED <<occ, loginCall, bookCall, matchCall, nextCall, loopVars>>

NextOnce == CallRunScheduleOnce

SpecOnce == InitOnce /\ [][NextOnce]_vars

----------------------------------------------------------------------------
(* Properties of one pass over all the interests.                           *)

onceHandles == InterestHandles(onceCall.cfg.Interests)
onceClasses == onceCall.fetch.classes
oncePass == onceCall.result.pass

(* The pass of the run came to its end: the client was built, the classes   *)
(* were fetched and no login failed.                                        *)
PassCompleted == onceCall.called /\ onceCall.result.err = ""

(* The class is one a configured interest asks for, and it can be booked.   *)
Wanted(c) ==
    \E i \in 1 .. Len(onceHandles) :
        /\ onceHandles[i].Club = c.ClubName
        /\ interestMatches(c, onceHandles[i].Interest, FALSE).match

CanBeBooked(c) == c.Bookable /\ ~c.Booked /\ c.ClassID # "" /\ c.ClubID # ""

Requested(c) ==
    \E k \in 1 .. Len(oncePass.books) :
        oncePass.books[k] = [ClubID |-> c.ClubID, ClassID |-> c.ClassID]

(* C18: in a completed pass every discovered class that matches a           *)
(* configured interest and can be booked (open, not yet booked, with its    *)
(* identifiers) gets a booking request, also when several classes match     *)
(* one interest.                                                            *)
C18_EveryMatchingClassRequested ==
    PassCompleted =>
        \A i \in 1 .. Len(onceClasses) :
            (Wanted(onceClasses[i]) /\ CanBeBooked(onceClasses[i]))
                => Requested(onceClasses[i])

(* The errors a one-shot run can return: the client cannot be built, the    *)
(* classes cannot be fetched, the login fails.                              *)
FatalErrors == {"base URL", "fetch classes", "start booking session"}

PerSessionOutcomes ==
    {statusNoMatch, statusAlreadyBooked, statusNotOpen, statusMissingData,
     statusBooked, statusBookingFailed}

(* A class of the schedule that would need a login: the first match of      *)
(* some interest can be booked.                                             *)
NeedsLogin ==
    \E i \in 1 .. Len(onceHandles) :
        LET m == findMatchingClass(onceClasses, onceHandles[i].Club,
                                   onceHandles[i].Interest)
        IN  m.found /\ CanBeBooked(m.class)

LoginFails ==
    ~newBookingSession(DefaultBase, onceCall.cfg.Credentials, onceCall.login).session.open

(* C20: a one-shot run returns after one pass; it returns an error exactly  *)
(* when the client cannot be built, the discovery fails or a needed login   *)
(* fails; otherwise the pass has one result for every configured interest,  *)
(* in order, whatever the outcomes (already booked, not open, missing       *)
(* identifier, failed booking) of the interests before it, and at most one  *)
(* login.                                                                   *)
C20_OneShotProcessesAllInterests ==
    onceCall.called =>
        /\ onceCall.result.returned
        /\ onceCall.result.err \in FatalErrors \cup {""}
        /\ onceCall.result.err # "" <=>
                \/ ~NewWorldClassClient(onceCall.cfg.BaseURL).ok
                \/ onceCall.fetch.failed
                \/ NeedsLogin /\ LoginFails
        /\ onceCall.result.err = "" =>
                /\ Len(oncePass.results) = Len(onceHandles)
                /\ \A i \in 1 .. Len(onceHandles) :
                        /\ oncePass.results[i].ClubName = onceHandles[i].Club
                        /\ oncePass.results[i].Interest = onceHandles[i].Interest
                        /\ oncePass.results[i].Status \in PerSessionOutcomes
                /\ oncePass.sessions <= 1

(* A run whose first interest ended with a failed booking and whose second  *)
(* interest was processed and booked.                                       *)
C20_Witness ==
    /\ PassCompleted
    /\ Len(oncePass.results) = 2
    /\ oncePass.results[1].Status = statusBookingFailed
    /\ oncePass.results[2].Status = statusBooked

----------------------------------------------------------------------------
(* Properties of the session matcher: logging, day and time filters.        *)

matchedTitleFilter == TrimSpace(matchCall.interest.Title)
matchedTitle == TrimSpace(matchCall.classInfo.Title)

(* C21: every match through an empty title filter and every match through  *)
(* a partial title is handed to the log, on every call path: with the       *)
(* logger of the fetch filtering (logger TRUE) and with the nil logger      *)
(* findMatchingClass passes in a scheduling pass (logger FALSE); an exact   *)
(* title match and a failed match log nothing.                              *)
C21_LooseMatchesLogged ==
    matchCall.called =>
        LET r == matchCall.result
        IN  /\ (r.match /\ matchedTitleFilter = <<>>) => r.log = "no title filter"
            /\ (r.match /\ matchedTitleFilter # <<>>
                    /\ ~SameTitle(matchedTitleFilter, matchedTitle))
                   => r.log = "partial title match"
            /\ (r.match /\ matchedTitleFilter # <<>>
                    /\ SameTitle(matchedTitleFilter, matchedTitle)) => r.log = ""
            /\ ~r.match => r.log = ""

(* The title filter of the interest passes (C12).                           *)
titlePass == matchedTitleFilter = <<>> \/ OccursIn(matchedTitleFilter, matchedTitle)

(* The day and time rules for the day filter d and the time filter t: the   *)
(* matcher accepts exactly when both filters and the title filter pass.     *)
DayTimeRule(d, t) ==
    LET dayPass == d = <<>> \/ OccursIn(d, matchCall.classInfo.Day)
        timePass == t = <<>> \/ SameTitle(t, TrimSpace(matchCall.classInfo.Time))
    IN  /\ matchCall.result.match <=> (dayPass /\ timePass /\ titlePass)
        /\ matchCall.result.match \in BOOLEAN

(* C24 as stated: a non-empty day filter passes iff it occurs (letter case  *)
(* apart) in the session's day label, a non-empty time filter passes iff    *)
(* it equals the session's trimmed time range (letter case apart), empty    *)
(* filters pass, and the matcher answers false when either fails.           *)
C24_DayTimeRule ==
    matchCall.called => DayTimeRule(matchCall.interest.Day, matchCall.interest.Time)

(* C24 amended: the same rules for the day and the time filter with the     *)
(* white space around them removed.                                         *)
C24_TrimmedDayTimeRule ==
    matchCall.called =>
        DayTimeRule(TrimSpace(matchCall.interest.Day), TrimSpace(matchCall.interest.Time))

(* A call with a title that would match and a time filter that occurs in    *)
(* the time range without being equal to it: no match.                      *)
C24_Witness ==
    /\ matchCall.called
    /\ titlePass
    /\ matchCall.interest.Day # <<>>
    /\ OccursIn(TrimSpace(matchCall.interest.Day), matchCall.classInfo.Day)
    /\ OccursIn(TrimSpace(matchCall.interest.Time), matchCall.classInfo.Time)
    /\ ~SameTitle(TrimSpace(matchCall.interest.Time), TrimSpace(matchCall.classInfo.Time))
    /\ ~matchCall.result.match

----------------------------------------------------------------------------
(* Properties of loop mode: waking, the missed window, the retry delay.     *)

LeadAndBuffer == 26 * Hour + 1 * Minute

(* C22: the loop waits only for a wake time that is ahead, the wake time    *)
(* is the start less 26 h and 1 min, the sleep ends exactly there and       *)
(* leads to the retry phase; no pass starts before the wake time; with the  *)
(* wake time not ahead the retry phase is entered without sleeping.         *)
C22_WakesAtLeadTime ==
    /\ [](pc = "waiting" => now < startTime - LeadAndBuffer)
    /\ [][(pc = "waiting") =>
             (pc' = "retry" /\ now' = startTime - LeadAndBuffer
              /\ startTime' = startTime /\ handle' = handle)]_vars
    /\ [][(pc = "compute" /\ pc' = "waiting") =>
             (now' = now /\ startTime' - LeadAndBuffer > now)]_vars
    /\ [][(pc = "compute" /\ pc' = "retry") =>
             (now' = now /\ startTime' - LeadAndBuffer <= now)]_vars
    /\ [][(last'.kind = "pass") => (pc = "retry" /\ now >= startTime - LeadAndBuffer)]_vars

(* The loop has slept until the wake time of an occurrence and stands at    *)
(* the retry phase.                                                         *)
C22_Witness ==
    /\ pc = "retry"
    /\ now = startTime - LeadAndBuffer
    /\ now > boot
    /\ handle \notin served

(* C23: giving an occurrence up is no failure: the step reports nothing,    *)
(* carries no error and leads to the computation, never to the return;      *)
(* the computation that follows does not return either, and the occurrence  *)
(* it finds starts strictly later than the one given up.                    *)
C23_MissedWindowAdvances ==
    /\ [][(last'.kind = "abandon") =>
             (pc = "retry" /\ pc' = "compute" /\ last'.err = ""
              /\ last'.report = NoReport /\ now > startTime + bookingGracePeriod)]_vars
    /\ [][(pc = "compute" /\ last.kind = "abandon") =>
             (pc' \in {"waiting", "retry"} /\ startTime' > startTime
              /\ startTime' >= now)]_vars

(* An occurrence has been given up after its cutoff and the loop stands at  *)
(* the computation of the next one.                                         *)
C23_Witness ==
    /\ pc = "compute"
    /\ last.kind = "abandon"
    /\ now > startTime + bookingGracePeriod
    /\ handle \in served

RetryDelaySeconds == 10

(* C26: a pass that does not satisfy the interest, failed passes included,  *)
(* is followed by the retry delay; the delay lasts 10 s, starts no earlier  *)
(* than the pass and leads back to the cutoff check of the same             *)
(* occurrence; a retry phase is entered only from the computation, the      *)
(* wake-up or the retry delay, so consecutive passes of a phase start at   *)
(* least 10 s apart.                                                        *)
C26_RetryDelayBetweenPasses ==
    /\ [][(last'.kind = "pass") =>
             /\ pc = "retry" /\ now' >= now
             /\ pc' = IF last'.err = ""
                         /\ last'.status \in {statusBooked, statusAlreadyBooked}
                      THEN "compute" ELSE "sleep"]_vars
    /\ [](pc = "sleep" => last.kind = "pass")
    /\ [][(pc = "sleep") =>
             (pc' = "retry" /\ now' = now + RetryDelaySeconds
              /\ startTime' = startTime /\ handle' = handle /\ deadline' = deadline)]_vars
    /\ [][(pc' = "retry" /\ pc # "retry") => pc \in {"compute", "waiting", "sleep"}]_vars
    /\ [][(pc = "retry") => pc' # "retry"]_vars

(* The loop is back at the cutoff check after a pass and a retry delay.     *)
C26_Witness ==
    /\ pc = "retry"
    /\ handle \in served
    /\ last = NoStep
    /\ now >= boot + RetryDelaySeconds

----------------------------------------------------------------------------
(* Properties of loop mode without alerting.                                *)

(* C27: without a Sentry DSN the setup of alerting does not fail, alerting  *)
(* is off and no step of the loop emits a report; with or without           *)
(* alerting a failed pass leads to the retry delay and a failed             *)
(* computation to the return, and with alerting on exactly those two       *)
(* carry a report.                                                          *)
C27_NoAlertingIsSilent ==
    /\ []((cfg.SentryDSN = "" /\ pc # "start") =>
             (~sentryEnabled /\ last.report = NoReport
              /\ ~(last.kind = "fatal" /\ last.err = "sentry init")))
    /\ [](~sentryEnabled => last.report = NoReport)
    /\ [](sentryEnabled =>
             (last.report # NoReport <=> (last.kind \in {"pass", "fatal"} /\ last.err # "")))
    /\ [][(last'.kind = "pass" /\ last'.err # "") => (pc' = "sleep")]_vars
    /\ [][(pc = "compute" /\ last'.kind = "fatal") => (pc' = "returned")]_vars

(* A loop without a DSN is sleeping the retry delay after a failed pass     *)
(* that left no report.                                                     *)
C27_Witness ==
    /\ cfg.SentryDSN = ""
    /\ pc = "sleep"
    /\ last.kind = "pass"
    /\ last.err # ""
    /\ last.report = NoReport

----------------------------------------------------------------------------
(* Properties of one pass: failed bookings.                                 *)

(* The portal's answer confirms a booking.                                  *)
Confirms(resp) ==
    /\ ~resp.failed
    /\ \/ resp.status = 200
       \/ resp.status = 302 /\ resp.location.path = <<"member-schedule.php">>

(* The results of the pass that stand for a booking call, in order.         *)
IsBookingResult(r) == r.Status \in {statusBooked, statusBookingFailed}
bookingResults == SelectSeq(oncePass.results, IsBookingResult)

----------------------------------------------------------------------------
(* Properties of the choice of the next interest: ties.                     *)

(* The pairs (club, position in the club's list) of the configuration and   *)
(* their order: clubs ascending, then the position.                         *)
nextPairs ==
    UNION {{<<c, i>> : i \in 1 .. Len(nextCall.interests[c])} : c \in DOMAIN nextCall.interests}

PairBefore(p, q) == StrLess(p[1], q[1]) \/ (p[1] = q[1] /\ p[2] < q[2])

PairInterest(p) == nextCall.interests[p[1]][p[2]]

PairOccurrence(p) ==
    computeNextOccurrence(nextCall.reference, nextCall.loc,
                          parseWeekday(PairInterest(p).DayEnglish).weekday,
                          parseStartTime(PairInterest(p).Time).hour,
                          parseStartTime(PairInterest(p).Time).minute)

(* C29: a successful call returns a configured interest with its            *)
(* occurrence, no interest has an earlier occurrence, and every interest    *)
(* with the same occurrence comes after the returned one in the order       *)
(* clubs ascending, then configuration order; the answer is thereby fixed   *)
(* by the configuration and the reference.                                  *)
C29_TiesGoToTheFirst ==
    (nextCall.called /\ nextCall.result.err = "") =>
        LET r == nextCall.result
            chosen == {p \in nextPairs :
                        /\ r.handle = [Club |-> p[1], Interest |-> PairInterest(p)]
                        /\ r.time = PairOccurrence(p)
                        /\ \A q \in nextPairs \ {p} :
                               \/ PairOccurrence(q) > r.time
                               \/ PairOccurrence(q) = r.time /\ PairBefore(p, q)}
        IN  Cardinality(chosen) = 1

(* Two interests of different clubs and two of one club share the earliest  *)
(* occurrence.                                                              *)
C29_Witness ==
    /\ nextCall.called
    /\ nextCall.result.err = ""
    /\ \E p, q \in nextPairs :
           /\ p # q
           /\ PairOccurrence(p) = nextCall.result.time
           /\ PairOccurrence(q) = nextCall.result.time
           /\ nextCall.result.handle = [Club |-> p[1], Interest |-> PairInterest(p)]
           /\ PairInterest(p) # PairInterest(q)

----------------------------------------------------------------------------
(* Properties of one pass: when a session is opened and a booking sent.     *)

(* The class the pass looks at for the i-th interest: the first class of    *)
(* the club that matches.                                                   *)
FirstMatch(i) ==
    LET at == {n \in 1 .. Len(onceClasses) :
                  /\ onceClasses[n].ClubName = onceHandles[i].Club
                  /\ interestMatches(onceClasses[n], onceHandles[i].Interest, FALSE).match}
    IN  IF at = {} THEN [found |-> FALSE, class |-> NoClass]
        ELSE [found |-> TRUE,
              class |-> onceClasses[CHOOSE n \in at : \A other \in at : n <= other]]

(* The outcomes the i-th interest may have.                                 *)
Outcomes(i) ==
    LET m == FirstMatch(i)
    IN  IF ~m.found THEN {statusNoMatch}
        ELSE IF m.class.Booked THEN {statusAlreadyBooked}
        ELSE IF ~m.class.Bookable THEN {statusNotOpen}
        ELSE IF m.class.ClassID = "" \/ m.class.ClubID = "" THEN {statusMissingData}
        ELSE {statusBooked, statusBookingFailed}

Actionable(i) == FirstMatch(i).found /\ CanBeBooked(FirstMatch(i).class)

openedSession == [open |-> TRUE, baseURL |-> DefaultBase]

(* C25: a pass posts a login and calls BookClass only when the matched      *)
(* class of some interest is open, not booked and has both identifiers,     *)
(* and sends booking requests for such classes only; every interest ends    *)
(* as no match, already booked (also when the class is not open), not       *)
(* open, missing data, or, for a class that can be booked, as booked or     *)
(* booking failed; BookClass with an empty club or class identifier sends   *)
(* nothing and fails.                                                       *)
C25_LoginAndBookingOnlyWhenBookable ==
    (onceCall.called /\ ~onceCall.fetch.failed
        /\ NewWorldClassClient(onceCall.cfg.BaseURL).ok) =>
        /\ (oncePass.posts > 0 \/ oncePass.sessions > 0 \/ oncePass.calls > 0)
              => \E i \in 1 .. Len(onceHandles) : Actionable(i)
        /\ \A k \in 1 .. Len(oncePass.books) :
               \E i \in 1 .. Len(onceHandles) :
                   /\ Actionable(i)
                   /\ oncePass.books[k] = [ClubID |-> FirstMatch(i).class.ClubID,
                                           ClassID |-> FirstMatch(i).class.ClassID]
        /\ onceCall.result.err = "" =>
               \A i \in 1 .. Len(onceHandles) : oncePass.results[i].Status \in Outcomes(i)
        /\ \A n \in 1 .. Len(onceClasses), k \in 1 .. Len(onceCall.bookings) :
               LET noClub == BookClass(openedSession, "", onceClasses[n].ClassID,
                                       onceCall.bookings[k])
                   noClass == BookClass(openedSession, onceClasses[n].ClubID, "",
                                        onceCall.bookings[k])
               IN  /\ ~noClub.sent /\ ~noClub.success /\ noClub.err.kind = "ids required"
                   /\ ~noClass.sent /\ ~noClass.success /\ noClass.err.kind = "ids required"

(* A pass over a reserved class that is not open and a class without its    *)
(* club identifier: already booked and missing data, no login although the  *)
(* portal would have accepted it.                                           *)
C25_Witness ==
    /\ onceCall.called
    /\ onceCall.result.err = ""
    /\ onceCall.login = Answer(StatusFound, Relative("dashboard.php"))
    /\ oncePass.posts = 0
    /\ oncePass.books = <<>>
    /\ \E i \in 1 .. Len(onceHandles) :
           /\ FirstMatch(i).found
           /\ FirstMatch(i).class.Booked /\ ~FirstMatch(i).class.Bookable
           /\ oncePass.results[i].Status = statusAlreadyBooked

====
